---- MODULE Spec2Model ----
(***************************************************************************)
(* Model of the oracle price-aggregation engine of keeper-bots:            *)
(*   - Oracle (price_feeds/base_oracle.py, price_feeds/okx_oracle_feed.py) *)
(*     with the websocket adapters okx_ws, gate_ws, kucoin_ws that drive   *)
(*     it, the USDT/USD fetcher and the bot's hot parameter update;        *)
(*   - PriceAggregator (price_feeds/price_aggregator.py).                  *)
(*                                                                         *)
(* Floats are modelled exactly: a float value is a record [k, n, d], with  *)
(* k = "num" for the rational n/d (d > 0, lowest terms), k = "nan" for NaN *)
(* and k = "none" for Python's None.  Trade prices and quantities are      *)
(* positive whole numbers of price units, as exchange trade prints are.    *)
(* time.time() is modelled at millisecond resolution by the variable clock.*)
(***************************************************************************)
EXTENDS Integers, Sequences, FiniteSets, TLC

(* ------------------------------ bounds --------------------------------- *)
\* clock value (ms) when the process starts
T0 == 20000
\* number of clock advances explored
MaxTicks == 3
\* largest trade list explored
MaxTrades == 2

(* -------------------------- program constants -------------------------- *)
MsPerSec == 1000
StaleMs == 5000
PublishSec == 10
DefaultWindow == 5
DefaultMinNotional == 10

\* one clock advance: half the staleness threshold
TickMs == StaleMs \div 2

(* ----------------------------- float values ---------------------------- *)
RECURSIVE GCD(_, _)
GCD(a, b) == IF b = 0 THEN a ELSE GCD(b, a % b)

Abs(x) == IF x < 0 THEN -x ELSE x

NaN == [k |-> "nan", n |-> 0, d |-> 1]
None == [k |-> "none", n |-> 0, d |-> 1]

Num(n, d) ==
    LET g == GCD(Abs(n), d)
    IN  [k |-> "num", n |-> n \div g, d |-> d \div g]

IsNum(x) == x.k = "num"
IsNaN(x) == x.k = "nan"
IsNone(x) == x.k = "none"

\* a < b, a = b for rationals (denominators are positive)
RLess(a, b) == a.n * b.d < b.n * a.d
RLeq(a, b) == a.n * b.d <= b.n * a.d

\* a + b, a * k, a / k for rationals and a whole number k (k > 0 in a / k)
RAdd(a, b) == Num(a.n * b.d + b.n * a.d, a.d * b.d)
RScale(a, k) == Num(a.n * k, a.d)
RDivInt(a, k) == Num(a.n, a.d * k)

(* ------------------------------ variables ------------------------------ *)
VARIABLES
    clock,      \* time.time() in ms
    adapter,    \* which websocket adapter drives the Oracle: "okx" | "gate" | "kucoin"
    conn,       \* "down" | "up": the adapter's websocket connection
    oracle,     \* the Oracle object: a record of its fields
    ret,        \* the operation of the last step, its arguments and whether it raised
    cmp,        \* the compute() call of the last step, if it made one
    feeds,              \* PriceAggregator.feeds: the feed names, in dict order
    min_valid_feeds,    \* PriceAggregator.min_valid_feeds
    aggregation_method, \* PriceAggregator.aggregation_method
    volume_history,     \* PriceAggregator.volume_history: feed name -> deque of trade counts
    cycles,             \* number of get_aggregated_price() calls made
    agg,                \* the get_aggregated_price() call of the last step
    okx_feed,   \* the OkxFeed object (okx_feed.py): a record of its fields
    bot,        \* the last iteration of announcer_update_bot's loop
    backoff,    \* ms the adapter loop slept since its last connection (attempt) ended;
                \* -1 before any has ended
    fetcher,    \* the usdt_price_fetcher task: whether it still runs, its backoff
                \* delay and its last sleep
    reader,     \* the consumer task's position in feed.get_price() -> oracle.compute()
                \* and what the call has read so far
    params,     \* announcer_update_bot's RUN_INTERVAL, CONTINUE_DELAY, TTL_BUFFER and
                \* TTL_BUFFER_ADJ
    configure   \* the last iteration of announcer_configure_bot's loop

feedVars == <<clock, adapter, conn, oracle, ret, cmp>>
aggVars == <<feeds, min_valid_feeds, aggregation_method, volume_history, cycles, agg>>
botVars == <<okx_feed, bot>>
cfgVars == <<params, configure>>
vars == <<feedVars, aggVars, botVars, backoff, fetcher, reader, cfgVars>>

(* ------------------------------- Oracle -------------------------------- *)
\* Oracle.__init__: start_time is None until the adapter's first subscription
OracleInit(window_sec, startup_window_sec, min_notional_) ==
    [ trades |-> <<>>,
      window |-> window_sec,
      startup_window |-> startup_window_sec,
      min_notional |-> min_notional_,
      usdt_usd_price |-> NaN,
      start_time |-> None,
      last_price |-> NaN,
      last_trade_ts |-> 0,
      last_pub |-> 0 ]

\* the Oracle class an adapter is built on
OracleClass(kind) == IF kind = "okx" THEN "okx" ELSE "base"

\* the trading pairs each adapter is run with
TradingPairs(kind) ==
    CASE kind = "okx" -> {"XCH-USDT", "XCH-USD"}
      [] kind = "gate" -> {"XCH_USDT"}
      [] kind = "kucoin" -> {"XCH-USDT"}

\* pair.endswith("-USDT") or pair.endswith("_USDT"); the OKX Oracle tests the dash only
IsUsdtQuoted(cls, pair) ==
    IF cls = "okx"
    THEN pair \in {"XCH-USDT"}
    ELSE pair \in {"XCH-USDT", "XCH_USDT"}

\* a variant that tests `if price` only
SetRateAccepts_Truthy(price) == ~IsNone(price) /\ ~(IsNum(price) /\ price.n = 0)

\* set_usdt_usd_price: `if price and price > 0`
SetRateAccepts(price) == IsNum(price) /\ price.n > 0

set_usdt_usd_price(self, price) ==
    IF SetRateAccepts(price) THEN [self EXCEPT !.usdt_usd_price = price] ELSE self

\* usd_px = px * self.usdt_usd_price (rates are whole numbers of price units)
ConvertPx_Unconverted(px, rate) == px

ConvertPx(px, rate) == (px * rate.n) \div rate.d

\* while self.trades and self.trades[0][0] < cutoff: self.trades.pop(0)
RECURSIVE DropOld(_, _)
DropOld(trs, cutoff) ==
    IF trs # <<>> /\ Head(trs).ts < cutoff THEN DropOld(Tail(trs), cutoff) ELSE trs

\* the first return of add_trade: a USDT-quoted trade while no rate is known
CannotConvert(self, cls, pair) == IsUsdtQuoted(cls, pair) /\ IsNaN(self.usdt_usd_price)

UsdPx(self, cls, pair, px) ==
    IF IsUsdtQuoted(cls, pair) THEN ConvertPx(px, self.usdt_usd_price) ELSE px

\* the second return of add_trade: usd_px * qty < self.min_notional
BelowNotional_Half(self, usd_px, qty) == usd_px * qty < self.min_notional \div 2

BelowNotional(self, usd_px, qty) == usd_px * qty < self.min_notional

\* the trade list after append and eviction
Admit(self, now, ts_ms, usd_px, qty) ==
    DropOld(Append(self.trades, [ts |-> ts_ms, px |-> usd_px, qty |-> qty]),
            now - self.window * MsPerSec)

add_trade(self, cls, now, pair, ts_ms, px, qty) ==
    IF CannotConvert(self, cls, pair) THEN self
    ELSE LET usd_px == UsdPx(self, cls, pair, px)
         IN  IF BelowNotional(self, usd_px, qty) THEN self
             ELSE [self EXCEPT !.trades = Admit(self, now, ts_ms, usd_px, qty),
                               !.last_trade_ts = ts_ms]

(* update_parameters: arguments are [t, v] with t = "none" (not passed),   *)
(* "num" (a number v) or "str" (not a number)                              *)
ArgNone == [t |-> "none", v |-> 0]
ArgNum(v) == [t |-> "num", v |-> v]
ArgStr == [t |-> "str", v |-> 0]

BadWindow(a) == a.t # "num" \/ a.v <= 0
BadNonNegative(a) == a.t # "num" \/ a.v < 0

\* a variant that evicts from the head only, as long as the head is older than cutoff
RECURSIVE KeepFrom_HeadOnly(_, _)
KeepFrom_HeadOnly(trs, cutoff) ==
    IF trs # <<>> /\ Head(trs).ts < cutoff THEN KeepFrom_HeadOnly(Tail(trs), cutoff) ELSE trs

\* self.trades = [trade for trade in self.trades if trade[0] >= cutoff]
KeepFrom(trs, cutoff) == SelectSeq(trs, LAMBDA t : t.ts >= cutoff)

\* the window_sec block: assigns self.window and cleans up when the window shrinks
ApplyWindow(self, now, window_sec) ==
    IF window_sec < self.window
    THEN [self EXCEPT !.window = window_sec,
                      !.trades = KeepFrom(self.trades, now - window_sec * MsPerSec)]
    ELSE [self EXCEPT !.window = window_sec]

\* returns [self, raised]: the blocks run in order, each validating its own argument
update_parameters(self, now, window_sec, startup_window_sec, min_notional_) ==
    IF window_sec.t # "none" /\ BadWindow(window_sec)
    THEN [self |-> self, raised |-> TRUE]
    ELSE
      LET s1 == IF window_sec.t = "none" THEN self ELSE ApplyWindow(self, now, window_sec.v)
      IN  IF startup_window_sec.t # "none" /\ BadNonNegative(startup_window_sec)
          THEN [self |-> s1, raised |-> TRUE]
          ELSE
            LET s2 == IF startup_window_sec.t = "none" THEN s1
                      ELSE [s1 EXCEPT !.startup_window = startup_window_sec.v]
            IN  IF min_notional_.t # "none" /\ BadNonNegative(min_notional_)
                THEN [self |-> s2, raised |-> TRUE]
                ELSE [self |-> IF min_notional_.t = "none" THEN s2
                               ELSE [s2 EXCEPT !.min_notional = min_notional_.v],
                      raised |-> FALSE]

(* ------------------------------ compute() ------------------------------ *)
RECURSIVE SumQty(_)
SumQty(trs) == IF trs = <<>> THEN 0 ELSE Head(trs).qty + SumQty(Tail(trs))

RECURSIVE SumPxQty(_)
SumPxQty(trs) == IF trs = <<>> THEN 0 ELSE Head(trs).px * Head(trs).qty + SumPxQty(Tail(trs))

\* sum(px * q) / vol
Vwap(trs) == Num(SumPxQty(trs), SumQty(trs))

\* sorted([px for _, px, _ in self.trades])
SortedPrices(trs) == SortSeq([i \in 1..Len(trs) |-> trs[i].px], LAMBDA a, b : a < b)

\* statistics.median: the middle value, or the mean of the two middle values
Median(sorted) ==
    LET n == Len(sorted)
    IN  IF n % 2 = 1 THEN Num(sorted[(n + 1) \div 2], 1)
        ELSE Num(sorted[n \div 2] + sorted[n \div 2 + 1], 2)

\* abs(vwap - med) / med > 0.03, for med > 0
Deviates(vwap, med) == 100 * Abs(vwap.n * med.d - med.n * vwap.d) > 3 * med.n * vwap.d

\* prices[len(prices) // 10 : -len(prices) // 10 or None]; -n // 10 is -ceil(n / 10)
Core_NoTrim(sorted) == sorted

Core(sorted) ==
    LET n == Len(sorted)
        lo == n \div 10
        hi == n - ((n + 9) \div 10)
    IN  IF n = 0 THEN <<>> ELSE SubSeq(sorted, lo + 1, hi)

InCore(trs, core) == SelectSeq(trs, LAMBDA t : \E i \in 1..Len(core) : core[i] = t.px)

Raise == [k |-> "raise", n |-> 0, d |-> 1]

\* `len(self.trades) > 4`
MinTrim == 4

\* the trim test: far from the median and more than 4 trades
TrimTriggered(trs) ==
    /\ trs # <<>>
    /\ SumQty(trs) > 0
    /\ Median(SortedPrices(trs)).n # 0
    /\ Deviates(Vwap(trs), Median(SortedPrices(trs)))
    /\ Len(trs) > MinTrim

\* the price compute() derives from the trade list: None when there is no trade or no
\* volume, Raise where Python raises ZeroDivisionError
TradePrice(trs) ==
    IF trs = <<>> THEN None
    ELSE IF SumQty(trs) <= 0 THEN None
    ELSE LET med == Median(SortedPrices(trs))
         IN  IF med.n = 0 THEN Raise
             ELSE IF TrimTriggered(trs)
                  THEN LET kept == InCore(trs, Core(SortedPrices(trs)))
                       IN  IF SumQty(kept) = 0 THEN Raise ELSE Vwap(kept)
                  ELSE Vwap(trs)

\* a variant that compares the elapsed milliseconds with the window in seconds
StartupElapsedLess_Units(self, now) ==
    now * self.start_time.d - self.start_time.n * MsPerSec
        < self.startup_window * self.start_time.d

\* startup_elapsed = now / 1000.0 - self.start_time; startup_elapsed < self.startup_window
StartupElapsedLess(self, now) ==
    now * self.start_time.d - self.start_time.n * MsPerSec
        < self.startup_window * MsPerSec * self.start_time.d

InStartup(self, now) == ~IsNone(self.start_time) /\ StartupElapsedLess(self, now)

\* stale = (now - self.last_trade_ts) > 5000
IsStale(self, now) == (now - self.last_trade_ts) > StaleMs

\* price = fallback_mid if fallback_mid is not None else self.last_price
Degraded_FallbackOnly(self, fallback_mid) == IF ~IsNone(fallback_mid) THEN fallback_mid ELSE NaN

Degraded(self, fallback_mid) == IF ~IsNone(fallback_mid) THEN fallback_mid ELSE self.last_price

Meta(stale_, self, startup_, degraded_, ts_) ==
    [stale |-> stale_, window |-> self.window, trades |-> Len(self.trades),
     startup |-> startup_, degraded |-> degraded_, ts |-> ts_]

\* returns [self, price, meta, raised]; meta.degraded is TRUE when the key is present,
\* meta.ts is -1 when the key is absent
compute_Consuming(self, now, fallback_mid) ==
    IF InStartup(self, now)
    THEN [self |-> self, price |-> NaN, raised |-> FALSE,
          meta |-> Meta(FALSE, self, TRUE, FALSE, -1)]
    ELSE LET tp == TradePrice(self.trades)
         IN  IF tp = Raise
             THEN [self |-> self, price |-> NaN, raised |-> TRUE,
                   meta |-> Meta(IsStale(self, now), self, FALSE, FALSE, -1)]
             ELSE LET price == IF IsNone(tp) THEN Degraded(self, fallback_mid) ELSE tp
                  IN  [self |-> [self EXCEPT !.last_price = price,
                                             !.trades = IF self.trades = <<>> THEN <<>>
                                                        ELSE Tail(self.trades)],
                       price |-> price, raised |-> FALSE,
                       meta |-> Meta(IsStale(self, now), self, FALSE, IsNone(tp), now)]

compute(self, now, fallback_mid) ==
    IF InStartup(self, now)
    THEN [self |-> self, price |-> NaN, raised |-> FALSE,
          meta |-> Meta(FALSE, self, TRUE, FALSE, -1)]
    ELSE LET tp == TradePrice(self.trades)
         IN  IF tp = Raise
             THEN [self |-> self, price |-> NaN, raised |-> TRUE,
                   meta |-> Meta(IsStale(self, now), self, FALSE, FALSE, -1)]
             ELSE LET price == IF IsNone(tp) THEN Degraded(self, fallback_mid) ELSE tp
                  IN  [self |-> [self EXCEPT !.last_price = price],
                       price |-> price, raised |-> FALSE,
                       meta |-> Meta(IsStale(self, now), self, FALSE, IsNone(tp), now)]

(* ------------------- feeds and websocket adapters ---------------------- *)
Adapters == {"okx", "gate", "kucoin"}

\* OkxOracleFeed.get_price returns the bare price, BaseOracleFeed.get_price the pair
FeedGetPrice(kind, r) ==
    IF kind = "okx"
    THEN [shape |-> "float", price |-> r.price, meta |-> r.meta, raised |-> r.raised]
    ELSE [shape |-> "pair", price |-> r.price, meta |-> r.meta, raised |-> r.raised]

\* `if oracle.start_time is None: oracle.start_time = time.time()`
SetStartTime_Always(self, now) == [self EXCEPT !.start_time = Num(now, MsPerSec)]

SetStartTime(self, now) ==
    IF IsNone(self.start_time) THEN [self EXCEPT !.start_time = Num(now, MsPerSec)] ELSE self

\* `if now - oracle.last_pub >= 10`
PublishDue(self, now) == now - self.last_pub >= PublishSec * MsPerSec

NoCompute == [called |-> FALSE, fallback |-> None, price |-> NaN, raised |-> FALSE,
              meta |-> [stale |-> FALSE, window |-> 0, trades |-> 0, startup |-> FALSE,
                        degraded |-> FALSE, ts |-> -1]]

Computed(r, fallback_mid) ==
    [called |-> TRUE, fallback |-> fallback_mid, price |-> r.price, raised |-> r.raised,
     meta |-> r.meta]

\* the tail of each message loop: publish every 10 s. Returns [self, cmp]
Publish(self, now, fallback_mid) ==
    IF PublishDue(self, now)
    THEN LET r == compute(self, now, fallback_mid)
         IN  [self |-> IF r.raised THEN self ELSE [r.self EXCEPT !.last_pub = now],
              cmp |-> Computed(r, fallback_mid)]
    ELSE [self |-> self, cmp |-> NoCompute]

\* okx_ws handles an event message and continues; gate_ws and kucoin_ws go on to publish
PublishesAfterEvent(kind) == kind # "okx"

(* ------------------------------ input sets ----------------------------- *)
StartupWindows == {0, 5}
Lags == {0, 3 * TickMs}
Fallbacks == {None, Num(20, 1)}
RateInputs == {None, NaN, Num(0, 1), Num(-1, 1), Num(1, 1), Num(2, 1)}
WindowArgs == {ArgNone, ArgNum(2), ArgNum(5), ArgNum(0), ArgStr}
StartupArgs == {ArgNone, ArgNum(0), ArgNum(-1)}
NotionalArgs == {ArgNone, ArgNum(30), ArgNum(-1)}

NoArgs == [pair |-> "", ts |-> 0, px |-> 0, qty |-> 0]

(* ------------------------- OkxFeed (okx_feed.py) ----------------------- *)
\* startup_window_length=900, window_length=3600
DefaultStartupWindowLength == 900
DefaultWindowLength == 3600

\* OkxFeed.__init__: starttime 0 is the begin of the Unix epoch; convert is
\* `self.bq()[1] != self.uquote`. Times are in ms, the window lengths in seconds.
OkxFeedInitFor(convert_, startup_window_length_, window_length_) ==
    [ convert |-> convert_,
      startup_window_length |-> startup_window_length_,
      window_length |-> window_length_,
      starttime |-> 0,
      feed |-> <<>>,
      price |-> NaN,
      size |-> 0 ]

OkxFeedInit(startup_window_length_, window_length_) ==
    OkxFeedInitFor(FALSE, startup_window_length_, window_length_)

\* recalculate_on_append: sizes are positive, so new_size is never 0
recalculate_on_append(self, append_trade) ==
    IF IsNaN(self.price)
    THEN [self EXCEPT !.price = append_trade.px, !.size = append_trade.sz]
    ELSE LET new_size == self.size + append_trade.sz
             new_price == RDivInt(RAdd(RScale(self.price, self.size),
                                       RScale(append_trade.px, append_trade.sz)), new_size)
         IN  [self EXCEPT !.price = new_price, !.size = new_size]

\* a variant whose length-2 case keeps the trade that is popped
recalculate_on_pop_KeepsHead(self) ==
    IF Len(self.feed) = 1
    THEN [self EXCEPT !.price = NaN, !.size = 0]
    ELSE IF Len(self.feed) = 2
    THEN [self EXCEPT !.price = self.feed[1].px, !.size = self.feed[1].sz]
    ELSE LET pop_trade == self.feed[1]
             new_size == self.size - pop_trade.sz
             new_price == RDivInt(RAdd(RScale(self.price, self.size),
                                       RScale(pop_trade.px, -pop_trade.sz)), new_size)
         IN  [self EXCEPT !.price = new_price, !.size = new_size]

\* recalculate_on_pop, called with a non-empty feed
recalculate_on_pop(self) ==
    IF Len(self.feed) = 1
    THEN [self EXCEPT !.price = NaN, !.size = 0]
    ELSE IF Len(self.feed) = 2
    THEN [self EXCEPT !.price = self.feed[2].px, !.size = self.feed[2].sz]
    ELSE LET pop_trade == self.feed[1]
             new_size == self.size - pop_trade.sz
             new_price == RDivInt(RAdd(RScale(self.price, self.size),
                                       RScale(pop_trade.px, -pop_trade.sz)), new_size)
         IN  [self EXCEPT !.price = new_price, !.size = new_size]

\* `while self.feed[0][2] < now - self.window_length`: recalculate, popleft, stop
\* when the feed is empty
RECURSIVE PopOld(_, _)
PopOld(self, now) ==
    IF self.feed = <<>> THEN self
    ELSE IF self.feed[1].ts < now - self.window_length * MsPerSec
    THEN PopOld([recalculate_on_pop(self) EXCEPT !.feed = Tail(self.feed)], now)
    ELSE self

\* datetime.utcfromtimestamp(int(ts[:-3])): the ms timestamp cut to whole seconds
TradeTime(ts_ms) == (ts_ms \div MsPerSec) * MsPerSec

\* `for i in range(len(message["data"]))`: price the trade in the ultimate quote
\* currency, recalculate, append. coinbase_price None makes the product raise
\* TypeError; the trades before it stay appended. Returns [self, raised]
RECURSIVE AppendTrades(_, _, _)
AppendTrades(self, data, coinbase_price) ==
    IF data = <<>> THEN [self |-> self, raised |-> FALSE]
    ELSE IF self.convert /\ ~IsNum(coinbase_price) THEN [self |-> self, raised |-> TRUE]
    ELSE LET m == Head(data)
             price == IF self.convert THEN RScale(coinbase_price, m.px) ELSE Num(m.px, 1)
             new_trade == [px |-> price, sz |-> m.sz, ts |-> TradeTime(m.ts)]
             s1 == recalculate_on_append(self, new_trade)
         IN  AppendTrades([s1 EXCEPT !.feed = Append(self.feed, new_trade)],
                          Tail(data), coinbase_price)

\* OkxFeed.__call__(msg). msg.kind is "subscribe", "event" (any other event),
\* "error" or "data". Returns [self, raised]
OkxFeedCall(self, now, msg, coinbase_price) ==
    CASE msg.kind = "subscribe" -> [self |-> [self EXCEPT !.starttime = now], raised |-> FALSE]
      [] msg.kind = "event" -> [self |-> self, raised |-> TRUE]
      [] msg.kind = "error" -> [self |-> self, raised |-> TRUE]
      [] OTHER ->
            IF self.starttime > 0
            THEN AppendTrades(PopOld(self, now), msg.data, coinbase_price)
            ELSE [self |-> self, raised |-> FALSE]

\* `datetime.utcnow() - self.startup_window_length > self.starttime`: the test that
\* only chooses the log line of __call__
PastStartup(self, now) == now - self.startup_window_length * MsPerSec > self.starttime

\* OkxFeed.get_price: `return self.price`
OkxFeedGetPrice(self) == self.price

(* ------------- announcer_update_bot (announcer_update_bot.py) ---------- *)
\* PRICE_PRECISION = 10 ** 2
PricePrecision == 100
\* ANNOUNCER_UPDATE_UPDATE_THRESHOLD_BPS and the adjusted TTL buffer of the run
UpdateThresholdBps == 100
TtlBufferAdj == 300
BpsDen == 10000

\* int(x): truncation toward zero
IntOf(x) == IF x.n >= 0 THEN x.n \div x.d ELSE -((-x.n) \div x.d)

\* the announcer the iteration works on: the first approved one, else the first one
approved_announcers(announcers) == SelectSeq(announcers, LAMBDA x : x.approved)

ChooseAnnouncer(announcers) ==
    IF approved_announcers(announcers) = <<>> THEN announcers[1]
    ELSE approved_announcers(announcers)[1]

\* a variant that prices a failed reading at 0 instead of the announcer's price
MarketPrice_Zero(reading, announcer) ==
    IF reading.raised THEN 0
    ELSE IF IsNaN(reading.price) THEN 0
    ELSE IntOf(RScale(reading.price, PricePrecision))

\* `price = await okx_feed.get_price()` with its except and else branches; reading is
\* [price, raised]
MarketPrice(reading, announcer) ==
    IF reading.raised THEN announcer.price
    ELSE IF IsNaN(reading.price) THEN announcer.price
    ELSE IntOf(RScale(reading.price, PricePrecision))

\* abs(announcer["price"] / float(price) - 1) <= UPDATE_THRESHOLD_BPS_ADJ / 10000.0,
\* for price >= 1
WithinThreshold(announcer, price) ==
    Abs(announcer.price - price) * BpsDen <= UpdateThresholdBps * price

\* a variant whose last branch tests the threshold only
UpdateDecision_ThresholdOnly(announcer, price) ==
    IF price < 0 THEN [update |-> TRUE, price |-> announcer.price]
    ELSE IF price < 1 THEN [update |-> TRUE, price |-> 1]
    ELSE IF WithinThreshold(announcer, price)
    THEN [update |-> FALSE, price |-> price]
    ELSE [update |-> TRUE, price |-> price]

\* the `if price < 0 ... elif price < 1 ... elif ...` chain: [update, price]
UpdateDecision(announcer, price) ==
    IF price < 0 THEN [update |-> TRUE, price |-> announcer.price]
    ELSE IF price < 1 THEN [update |-> TRUE, price |-> 1]
    ELSE IF announcer.expires_in > TtlBufferAdj /\ WithinThreshold(announcer, price)
    THEN [update |-> FALSE, price |-> price]
    ELSE [update |-> TRUE, price |-> price]

NoAnnouncer == [price |-> 0, expires_in |-> 0, approved |-> FALSE]
NoReading == [price |-> NaN, raised |-> FALSE]

NoIteration ==
    [ran |-> FALSE, shown |-> "", announcer |-> NoAnnouncer, polled |-> FALSE,
     reading |-> NoReading, updated |-> FALSE, carried |-> 0, update_raised |-> FALSE]

\* one pass of the `while True` loop from announcer_show on. shown is "raise" when
\* announcer_show raises, else "ok" with the list announcers; reading is the outcome
\* of get_price(); rpc_raises tells whether the update step (set_fee_per_cost, then
\* announcer_update) raises
Iteration(shown_, announcers, reading_, rpc_raises) ==
    IF shown_ = "raise" \/ announcers = <<>>
    THEN [NoIteration EXCEPT !.ran = TRUE, !.shown = shown_]
    ELSE LET announcer_ == ChooseAnnouncer(announcers)
             price == MarketPrice(reading_, announcer_)
             d == UpdateDecision(announcer_, price)
         IN  [ran |-> TRUE, shown |-> shown_, announcer |-> announcer_, polled |-> TRUE,
              reading |-> reading_, updated |-> d.update, carried |-> d.price,
              update_raised |-> d.update /\ rpc_raises]

(* ------------ announcer_update_bot: the adjusted TTL buffer ------------ *)
\* MAX_TX_BLOCK_TIME = 120
MaxTxBlockTime == 120

Max2(a, b) == IF a >= b THEN a ELSE b

\* at start-up: TTL_BUFFER_ADJ = max(TTL_BUFFER,
\*     MAX_TX_BLOCK_TIME + max(RUN_INTERVAL, CONTINUE_DELAY) + (2 * CONTINUE_DELAY) + 1)
StartupTtlBufferAdj(run, cont, ttl) ==
    Max2(ttl, MaxTxBlockTime + Max2(run, cont) + (2 * cont) + 1)

\* in the reload blocks: ttl_buffer_adj = max(TTL_BUFFER,
\*     MAX_TX_BLOCK_TIME + max(RUN_INTERVAL, CONTINUE_DELAY) + (2 * RUN_INTERVAL + 1))
ReloadTtlBufferAdj(run, cont, ttl) ==
    Max2(ttl, MaxTxBlockTime + Max2(run, cont) + (2 * run + 1))

\* the parameters after the start-up lines of run_announcer
StartupParams(run, cont, ttl) ==
    [RUN_INTERVAL |-> run, CONTINUE_DELAY |-> cont, TTL_BUFFER |-> ttl,
     TTL_BUFFER_ADJ |-> StartupTtlBufferAdj(run, cont, ttl)]

\* the three reload blocks of the loop, in their order: each compares one parameter
\* with the reloaded value and, if it differs, stores it and recomputes
\* TTL_BUFFER_ADJ from the parameters as they are at that point
ReloadRunInterval(p, run) ==
    IF p.RUN_INTERVAL # run
    THEN [p EXCEPT !.RUN_INTERVAL = run,
                   !.TTL_BUFFER_ADJ = ReloadTtlBufferAdj(run, p.CONTINUE_DELAY, p.TTL_BUFFER)]
    ELSE p

ReloadContinueDelay(p, cont) ==
    IF p.CONTINUE_DELAY # cont
    THEN [p EXCEPT !.CONTINUE_DELAY = cont,
                   !.TTL_BUFFER_ADJ = ReloadTtlBufferAdj(p.RUN_INTERVAL, cont, p.TTL_BUFFER)]
    ELSE p

ReloadTtlBuffer(p, ttl) ==
    IF p.TTL_BUFFER # ttl
    THEN [p EXCEPT !.TTL_BUFFER = ttl,
                   !.TTL_BUFFER_ADJ = ReloadTtlBufferAdj(p.RUN_INTERVAL, p.CONTINUE_DELAY, ttl)]
    ELSE p

ReloadParams(p, run, cont, ttl) ==
    ReloadTtlBuffer(ReloadContinueDelay(ReloadRunInterval(p, run), cont), ttl)

\* the env values of the run that SpecBot follows: its adjusted TTL buffer is
\* TtlBufferAdj
ParamsInit == StartupParams(60, 10, TtlBufferAdj)

(* ---------- announcer_configure_bot (announcer_configure_bot.py) -------- *)
\* STATUTE_ANNOUNCER_MINIMUM_DEPOSIT = 34, STATUTE_ANNOUNCER_MAXIMUM_VALUE_TTL = 35
StatuteAnnouncerMinimumDeposit == 34
StatuteAnnouncerMaximumValueTtl == 35

\* the env values of the run: DEPOSIT_BUFFER in mojos, DEPOSIT_BUFFER_REFILL_THRESHOLD
\* = 0.2 as a fraction, CONFIGURE_UNAPPROVED_ANNOUNCER
ConfigureEnv ==
    [DEPOSIT_BUFFER |-> 10, REFILL_NUM |-> 1, REFILL_DEN |-> 5,
     CONFIGURE_UNAPPROVED_ANNOUNCER |-> TRUE]

\* None, and `if x` for an int-or-None x
Unset == -1
Truthy(x) == x # Unset /\ x # 0

\* the announcer the iteration configures: <<>> when it sleeps and continues instead
SelectAnnouncer(announcers, env) ==
    IF Len(announcers) < 1 THEN <<>>
    ELSE IF Len(announcers) > 1
         THEN IF approved_announcers(announcers) # <<>>
              THEN <<approved_announcers(announcers)[1]>>
              ELSE IF ~env.CONFIGURE_UNAPPROVED_ANNOUNCER THEN <<>>
              ELSE <<announcers[1]>>
    ELSE <<announcers[1]>>

\* a variant that counts a bill whatever its status
BillCounts_AnyStatus(c) == TRUE

\* c["status"]["status"] in ["IN_IMPLEMENTATION_DELAY", "IMPLEMENTABLE"]
BillCounts(c) == c.status \in {"IN_IMPLEMENTATION_DELAY", "IMPLEMENTABLE"}

\* `for c in bill_coins`: a coin without the keys read (c.ok = FALSE) raises
\* KeyError, which sets error and breaks
RECURSIVE ScanBills(_, _, _)
ScanBills(bill_coins, max_min_deposit, min_price_ttl) ==
    IF bill_coins = <<>>
    THEN [error |-> FALSE, max_min_deposit |-> max_min_deposit,
          min_price_ttl |-> min_price_ttl]
    ELSE LET c == Head(bill_coins)
         IN  IF ~c.ok
             THEN [error |-> TRUE, max_min_deposit |-> max_min_deposit,
                   min_price_ttl |-> min_price_ttl]
             ELSE ScanBills(Tail(bill_coins),
                            IF /\ c.statute_index = StatuteAnnouncerMinimumDeposit
                               /\ BillCounts(c)
                               /\ c.value > max_min_deposit
                            THEN c.value ELSE max_min_deposit,
                            IF /\ c.statute_index = StatuteAnnouncerMaximumValueTtl
                               /\ BillCounts(c)
                               /\ c.value < min_price_ttl
                            THEN c.value ELSE min_price_ttl)

NoConfigure ==
    [ran |-> FALSE, stage |-> "", announcer |-> <<>>, bills |-> <<>>,
     statutes_min_deposit |-> Unset, statutes_price_ttl |-> Unset,
     req_min_deposit |-> Unset, req_price_ttl |-> Unset,
     new_min_deposit |-> Unset, new_deposit |-> Unset, new_price_ttl |-> Unset,
     configured |-> FALSE]

\* what an RPC call does: it returns a value or raises
Returns(v) == [raised |-> FALSE, value |-> v]
Raises(v) == [raised |-> TRUE, value |-> v]

\* one pass of the `while True` loop. shown, statutes, bill_coins and xch_balance
\* are what announcer_show, statutes_list, upkeep_bills_list and wallet_balances do
ConfigureIteration(shown, statutes, bill_coins, xch_balance, env) ==
    LET ran == [NoConfigure EXCEPT !.ran = TRUE]
        sel == IF shown.raised THEN <<>> ELSE SelectAnnouncer(shown.value, env)
    IN  IF sel = <<>> THEN [ran EXCEPT !.stage = "no_announcer"]
        ELSE IF statutes.raised
             THEN [ran EXCEPT !.stage = "statutes_failed", !.announcer = sel]
        ELSE IF bill_coins.raised
             THEN [ran EXCEPT !.stage = "bills_failed", !.announcer = sel]
        ELSE
        LET announcer == sel[1]
            scan == ScanBills(bill_coins.value, statutes.value.min_deposit,
                             statutes.value.price_ttl)
            req_min_deposit == Max2(scan.max_min_deposit, statutes.value.min_deposit)
            min_acceptable_deposit ==
                req_min_deposit + (env.DEPOSIT_BUFFER * env.REFILL_NUM) \div env.REFILL_DEN
            max_acceptable_deposit == req_min_deposit + env.DEPOSIT_BUFFER
            off_deposit == \/ announcer.deposit < min_acceptable_deposit
                           \/ announcer.deposit > max_acceptable_deposit
            new_min_deposit == IF announcer.min_deposit # req_min_deposit \/ off_deposit
                               THEN req_min_deposit ELSE Unset
            new_deposit == IF off_deposit THEN req_min_deposit + env.DEPOSIT_BUFFER
                           ELSE Unset
            asks_balance == off_deposit /\ new_deposit >= announcer.deposit
            req_price_ttl == IF scan.min_price_ttl <= statutes.value.price_ttl
                             THEN scan.min_price_ttl ELSE statutes.value.price_ttl
            new_price_ttl == IF announcer.price_ttl # req_price_ttl THEN req_price_ttl
                             ELSE Unset
            read == [ran EXCEPT !.announcer = sel, !.bills = bill_coins.value,
                                !.statutes_min_deposit = statutes.value.min_deposit,
                                !.statutes_price_ttl = statutes.value.price_ttl]
            required == [read EXCEPT !.req_min_deposit = req_min_deposit,
                                     !.new_min_deposit = new_min_deposit,
                                     !.new_deposit = new_deposit]
        IN  IF scan.error THEN [read EXCEPT !.stage = "bill_error"]
            ELSE IF asks_balance /\ xch_balance.raised
                 THEN [required EXCEPT !.stage = "balance_failed"]
            ELSE IF asks_balance /\ xch_balance.value < new_deposit - announcer.deposit
                 THEN [required EXCEPT !.stage = "insufficient_balance"]
            ELSE [required EXCEPT !.stage = "done",
                                  !.req_price_ttl = req_price_ttl,
                                  !.new_price_ttl = new_price_ttl,
                                  !.configured = Truthy(new_price_ttl) \/ Truthy(new_min_deposit)]

(* -------------------------- usdt_price_fetcher ------------------------- *)
\* base_delay, max_delay and the normal polling interval, in microseconds (the
\* delays the loop computes are whole numbers of microseconds up to the cap)
BaseDelayUs == 5000000
MaxDelayUs == 60000000
NormalIntervalUs == 15000000
\* random.uniform(0, 1) seconds: its upper end, and the two extremes drawn
JitterMaxUs == 1000000
Jitters == {0, JitterMaxUs}

\* the task at its first iteration: delay = base_delay, nothing slept yet
FetcherInit == [alive |-> TRUE, delay |-> BaseDelayUs, slept |-> -1]

\* a variant without the cap: delay = delay * 1.5 + random.uniform(0, 1)
NextDelay_Uncapped(delay, jitter) ==
    (3 * delay + 2 * jitter) \div 2

\* delay = min(max_delay, delay * 1.5 + random.uniform(0, 1))
NextDelay(delay, jitter) ==
    IF 3 * delay + 2 * jitter >= 2 * MaxDelayUs
    THEN MaxDelayUs
    ELSE (3 * delay + 2 * jitter) \div 2

\* what float(data["data"]["amount"]) can be when the body holds an amount
FetchedAmounts == {NaN, Num(0, 1), Num(1, 1), Num(2, 1)}

\* what one session.get can end in: status 200 with an amount; another status;
\* aiohttp.ClientError; asyncio.TimeoutError; status 200 with a JSON body that has
\* no data.amount or one float() rejects (KeyError, TypeError, ValueError)
FailedFetches == {"status", "client_error", "timeout", "no_amount"}
CaughtFetches == {"status", "client_error", "timeout"}

(* --------------------- the consumer's get_price() ---------------------- *)
\* where the consumer task is: "idle" between two calls (awaiting its sleep),
\* "entered" in get_price() with fallback_mid computed, "counted" in compute() with
\* meta built from len(self.trades), before the price is computed
ReaderInit == [pc |-> "idle", fallback |-> None, now |-> 0, trades |-> 0,
               price |-> NaN, raised |-> FALSE, calls |-> 0]

\* a variant in which the call would yield to the event loop at each position
Suspends_Everywhere(pc) == TRUE

\* the positions at which the consumer task is suspended and other tasks run:
\* get_price() and compute() hold no await
Suspends(pc) == pc = "idle"

(* -------------------------------- actions ------------------------------ *)
\* a feed object right after construction, its adapter task not yet connected
InitFeed ==
    /\ clock = T0
    /\ adapter \in Adapters
    /\ conn = "down"
    /\ \E s \in StartupWindows : oracle = OracleInit(DefaultWindow, s, DefaultMinNotional)
    /\ ret = [op |-> "init", raised |-> FALSE, a |-> NoArgs]
    /\ cmp = NoCompute
    /\ okx_feed = OkxFeedInit(DefaultStartupWindowLength, DefaultWindowLength)
    /\ bot = NoIteration
    /\ backoff = -1
    /\ fetcher = FetcherInit
    /\ reader = ReaderInit
    /\ params = ParamsInit
    /\ configure = NoConfigure

(* --------------------------- PriceAggregator --------------------------- *)
\* max_single_feed_weight = 0.6, volume_spike_threshold = 3.0, min_valid_feeds = 2
MaxWeightNum == 6
MaxWeightDen == 10
SpikeThreshold == 3
DefaultMinValidFeeds == 2
\* `if len(self.volume_history[feed_name]) > 3`
MinHistory == 3
\* volume_history_length, the deques' maxlen (a bound of the model)
HistoryLength == 4
\* number of get_aggregated_price() calls explored
MaxCycles == 2

\* the feeds of example(): an OkxOracleFeed, a GateOracleFeed and a KucoinOracleFeed
ExampleFeeds == <<"OKX", "Gate.io", "KuCoin">>

FeedKind(name) ==
    CASE name = "OKX" -> "okx"
      [] name = "Gate.io" -> "gate"
      [] name = "KuCoin" -> "kucoin"

KnownMethods == {"volume_weighted", "median", "simple_average"}
Methods == KnownMethods \cup {"geometric"}

\* PriceAggregator.__init__
AggregatorInit(feeds_, min_valid_feeds_, method_) ==
    /\ feeds = feeds_
    /\ min_valid_feeds = min_valid_feeds_
    /\ aggregation_method = method_
    /\ volume_history = [i \in 1..Len(feeds_) |-> <<>>]

\* a variant on a deque without maxlen
DequeAppend_Unbounded(h, x) == Append(h, x)

\* deque(maxlen=volume_history_length).append
DequeAppend(h, x) ==
    IF Len(h) >= HistoryLength THEN Append(Tail(h), x) ELSE Append(h, x)

\* `price, meta = await feed.get_price()` and the validity test: [ok, price, trades]
\* out is what the feed's oracle.compute() does: [price, meta, raised]
Poll(kind, out) ==
    LET gp == FeedGetPrice(kind, out)
    IN  IF gp.raised THEN [ok |-> FALSE, why |-> "raised", price |-> NaN, trades |-> 0]
        ELSE IF gp.shape # "pair"
             THEN [ok |-> FALSE, why |-> "TypeError", price |-> NaN, trades |-> 0]
        ELSE IF IsNone(gp.price) \/ IsNaN(gp.price)
             THEN [ok |-> FALSE, why |-> "invalid", price |-> gp.price, trades |-> 0]
        ELSE [ok |-> TRUE, why |-> "", price |-> gp.price, trades |-> gp.meta.trades]

\* valid_prices: one entry per valid feed, in feed order; i is the feed's index
RECURSIVE CollectValid(_, _)
CollectValid(polls, i) ==
    IF i > Len(polls) THEN <<>>
    ELSE IF polls[i].ok
         THEN <<[feed |-> i, price |-> polls[i].price, trades |-> polls[i].trades]>>
              \o CollectValid(polls, i + 1)
         ELSE CollectValid(polls, i + 1)

RECURSIVE SumSeq(_)
SumSeq(s) == IF s = <<>> THEN 0 ELSE Head(s) + SumSeq(Tail(s))

RECURSIVE InsertSorted(_, _)
InsertSorted(x, s) ==
    IF s = <<>> THEN <<x>>
    ELSE IF RLeq(x, Head(s)) THEN <<x>> \o s
    ELSE <<Head(s)>> \o InsertSorted(x, Tail(s))

RECURSIVE SortPrices(_)
SortPrices(s) == IF s = <<>> THEN <<>> ELSE InsertSorted(Head(s), SortPrices(Tail(s)))

PricesOf(valid) == [i \in 1..Len(valid) |-> valid[i].price]
TradesOf(valid) == [i \in 1..Len(valid) |-> valid[i].trades]

\* statistics.median of the feed prices; StatisticsError when there is none
MedianPrice(valid) ==
    LET sorted == SortPrices(PricesOf(valid))
        n == Len(sorted)
    IN  IF n = 0 THEN Raise
        ELSE IF n % 2 = 1 THEN sorted[(n + 1) \div 2]
        ELSE RDivInt(RAdd(sorted[n \div 2], sorted[n \div 2 + 1]), 2)

\* step 1 divides by the median: abs(price - median_price) / median_price
DeviationRaises(valid) == Len(valid) >= 2 /\ MedianPrice(valid).n = 0

\* price_deviation_threshold = 0.05
DeviationNum == 5
DeviationDen == 100

\* `deviation > self.price_deviation_threshold` for a median above 0:
\* abs(price - median_price) / median_price > 0.05
Deviating(price, med) ==
    /\ med.n > 0
    /\ DeviationDen * Abs(price.n * med.d - med.n * price.d) > DeviationNum * med.n * price.d

\* a variant of step 1 that drops the feeds it flags
FlagDeviations_Excluding(valid) ==
    IF Len(valid) < 2 THEN valid
    ELSE SelectSeq(valid, LAMBDA v : ~Deviating(v.price, MedianPrice(valid)))

\* step 1: the loop over valid_prices only logs a warning for a deviating feed; the
\* list goes on to steps 2 and 3 as it came
FlagDeviations(valid) == valid

\* step 2 for one feed: h is its history, the current sample included
SpikeApplies_NoWarmup(h, current) ==
    /\ Len(h) > 1
    /\ SumSeq(SubSeq(h, 1, Len(h) - 1)) > 0
    /\ current * (Len(h) - 1) > SumSeq(SubSeq(h, 1, Len(h) - 1)) * SpikeThreshold

SpikeApplies(h, current) ==
    /\ Len(h) > MinHistory
    /\ SumSeq(SubSeq(h, 1, Len(h) - 1)) > 0
    /\ current * (Len(h) - 1) > SumSeq(SubSeq(h, 1, Len(h) - 1)) * SpikeThreshold

\* int(avg_volume * self.volume_spike_threshold)
SpikeCap(h) == (SumSeq(SubSeq(h, 1, Len(h) - 1)) * SpikeThreshold) \div (Len(h) - 1)

SpikeCapped(h, current) == IF SpikeApplies(h, current) THEN SpikeCap(h) ELSE current

\* step 3 for one feed: total_trades is summed once, before the loop
WeightApplies(c, total) == total > 0 /\ c * MaxWeightDen > MaxWeightNum * total

\* int(total_trades * self.max_single_feed_weight)
WeightCap(total) == (total * MaxWeightNum) \div MaxWeightDen

WeightCapped(c, total) == IF WeightApplies(c, total) THEN WeightCap(total) ELSE c

\* the trade counts after step 2, and after step 3
Spiked(valid, hist) ==
    IF Len(valid) < 2 THEN TradesOf(valid)
    ELSE [i \in 1..Len(valid) |-> SpikeCapped(hist[valid[i].feed], valid[i].trades)]

Effective(valid, hist) ==
    IF Len(valid) < 2 THEN TradesOf(valid)
    ELSE LET sp == Spiked(valid, hist)
         IN  [i \in 1..Len(valid) |-> WeightCapped(sp[i], SumSeq(sp))]

RECURSIVE SumPrices(_)
SumPrices(ps) == IF ps = <<>> THEN Num(0, 1) ELSE RAdd(Head(ps), SumPrices(Tail(ps)))

RECURSIVE WeightedSum(_, _)
WeightedSum(ps, ws) ==
    IF ps = <<>> THEN Num(0, 1)
    ELSE RAdd(RScale(Head(ps), Head(ws)), WeightedSum(Tail(ps), Tail(ws)))

\* _simple_average: sum(prices) / len(prices)
SimpleAverage(valid) ==
    IF Len(valid) = 0 THEN Raise ELSE RDivInt(SumPrices(PricesOf(valid)), Len(valid))

\* _volume_weighted_average over the effective trade counts
VolumeWeightedAverage_RawCounts(valid, eff) ==
    IF SumSeq(TradesOf(valid)) = 0 THEN SimpleAverage(valid)
    ELSE RDivInt(WeightedSum(PricesOf(valid), TradesOf(valid)), SumSeq(TradesOf(valid)))

VolumeWeightedAverage(valid, eff) ==
    IF SumSeq(eff) = 0 THEN SimpleAverage(valid)
    ELSE RDivInt(WeightedSum(PricesOf(valid), eff), SumSeq(eff))

Aggregate(method, valid, eff) ==
    CASE method = "volume_weighted" -> VolumeWeightedAverage(valid, eff)
      [] method = "median" -> MedianPrice(valid)
      [] method = "simple_average" -> SimpleAverage(valid)
      [] OTHER -> Raise

\* enough valid feeds this cycle?
Insufficient(valid, min_valid) == Len(valid) < min_valid

\* get_aggregated_price: polls every feed, records the valid counts, then aggregates.
\* outs[i] is what feed i's oracle.compute() does in this cycle
get_aggregated_price(feeds_, min_valid, method, hist, outs) ==
    LET polls == [i \in 1..Len(feeds_) |-> Poll(FeedKind(feeds_[i]), outs[i])]
        valid == CollectValid(polls, 1)
        hist2 == [i \in 1..Len(feeds_) |->
                    IF polls[i].ok THEN DequeAppend(hist[i], polls[i].trades) ELSE hist[i]]
        flagged == IF DeviationRaises(valid) THEN valid ELSE FlagDeviations(valid)
        spiked == Spiked(flagged, hist2)
        eff == Effective(flagged, hist2)
        result == IF Insufficient(valid, min_valid) THEN NaN
                  ELSE IF DeviationRaises(valid) THEN Raise
                  ELSE Aggregate(method, flagged, eff)
    IN  [history |-> hist2,
         call |-> [called |-> TRUE, outs |-> outs, polls |-> polls, valid |-> valid,
                   flagged |-> flagged,
                   before |-> hist, spiked |-> spiked, effective |-> eff,
                   result |-> result]]

NoCall == [called |-> FALSE]

\* the aggregator of example(), just constructed
InitAggregator ==
    /\ \E m \in Methods : AggregatorInit(ExampleFeeds, DefaultMinValidFeeds, m)
    /\ cycles = 0
    /\ agg = NoCall

(* what a feed's oracle.compute() can do in a cycle *)
OutRaise == [price |-> NaN, raised |-> TRUE, trades |-> 0]
OutPrice(p, c) == [price |-> p, raised |-> FALSE, trades |-> c]

AsCompute(o) ==
    [price |-> o.price, raised |-> o.raised,
     meta |-> [stale |-> FALSE, window |-> DefaultWindow, trades |-> o.trades,
               startup |-> FALSE, degraded |-> FALSE, ts |-> 0]]

AggPrices == {Num(0, 1), Num(100, 1)}
Counts == {0, 1, 9}
Outcomes == {OutRaise, OutPrice(NaN, 0)} \cup {OutPrice(p, c) : p \in AggPrices, c \in Counts}
\* the OKX oracle's outcomes: its price never reaches the aggregator
OkxOutcomes == {OutPrice(NaN, 0), OutPrice(Num(100, 1), 1)}

OutcomesOf(name) == IF FeedKind(name) = "okx" THEN OkxOutcomes ELSE Outcomes

\* one aggregation cycle
Cycle(outs) ==
    /\ cycles < MaxCycles
    /\ LET r == get_aggregated_price(feeds, min_valid_feeds, aggregation_method,
                                     volume_history,
                                     [i \in 1..Len(feeds) |-> AsCompute(outs[i])])
       IN  /\ volume_history' = r.history
           /\ agg' = r.call
    /\ cycles' = cycles + 1
    /\ UNCHANGED <<feeds, min_valid_feeds, aggregation_method, feedVars, botVars, backoff, fetcher, reader, cfgVars>>

Init == InitFeed /\ InitAggregator /\ aggregation_method = "volume_weighted"

\* sess.ws_connect succeeds and the subscriptions are sent
WsConnect ==
    /\ conn = "down"
    /\ conn' = "up"
    /\ ret' = [op |-> "connect", raised |-> FALSE, a |-> NoArgs]
    /\ cmp' = NoCompute
    /\ UNCHANGED <<clock, adapter, oracle, aggVars, botVars, backoff, fetcher, reader, cfgVars>>

\* `await asyncio.sleep(2 + 3 * random.random())`: between 2 and 5 seconds, here one
\* clock advance
MinSleepMs == 2000
Sleeps == {TickMs}

\* sess.ws_connect (or, for KuCoin, the token request) fails with a transport error:
\* the except clause sleeps, the loop tries again
WsConnectFailed(sleep) ==
    /\ conn = "down"
    /\ clock + sleep <= T0 + MaxTicks * TickMs
    /\ clock' = clock + sleep
    /\ backoff' = sleep
    /\ ret' = [op |-> "connect_failed", raised |-> FALSE, a |-> NoArgs]
    /\ cmp' = NoCompute
    /\ UNCHANGED <<adapter, conn, oracle, aggVars, botVars, fetcher, reader, cfgVars>>

\* the server closes the websocket: `async for msg in ws` ends without an exception
\* and `while True` starts over
WsClosed ==
    /\ conn = "up"
    /\ conn' = "down"
    /\ backoff' = 0
    /\ ret' = [op |-> "closed", raised |-> FALSE, a |-> NoArgs]
    /\ cmp' = NoCompute
    /\ UNCHANGED <<clock, adapter, oracle, aggVars, botVars, fetcher, reader, cfgVars>>

\* the message that confirms a subscription (OKX, Gate.io) or welcomes (KuCoin)
WsSubscribed(fallback_mid) ==
    /\ conn = "up"
    /\ LET s1 == SetStartTime(oracle, clock)
           p == IF PublishesAfterEvent(adapter) THEN Publish(s1, clock, fallback_mid)
                ELSE [self |-> s1, cmp |-> NoCompute]
       IN  /\ oracle' = p.self
           /\ cmp' = p.cmp
    /\ ret' = [op |-> "subscribed", raised |-> FALSE, a |-> NoArgs]
    /\ UNCHANGED <<clock, adapter, conn, aggVars, botVars, backoff, fetcher, reader, cfgVars>>

\* a trade message: add_trade, then the publish check; the list holds fewer than cap
\* trades when the message arrives
WsTradeUpTo(cap, pair, lag, px, qty, fallback_mid) ==
    /\ conn = "up"
    /\ Len(oracle.trades) < cap
    /\ LET s1 == add_trade(oracle, OracleClass(adapter), clock, pair, clock - lag, px, qty)
           p == Publish(s1, clock, fallback_mid)
       IN  /\ oracle' = p.self
           /\ cmp' = p.cmp
    /\ ret' = [op |-> "add_trade", raised |-> FALSE,
               a |-> [pair |-> pair, ts |-> clock - lag, px |-> px, qty |-> qty]]
    /\ UNCHANGED <<clock, adapter, conn, aggVars, botVars, backoff, fetcher, reader, cfgVars>>

WsTrade(pair, lag, px, qty, fallback_mid) ==
    WsTradeUpTo(MaxTrades, pair, lag, px, qty, fallback_mid)

\* a variant whose reconnect starts from an empty trade list
WsError_Resetting(sleep) ==
    /\ conn = "up"
    /\ clock + sleep <= T0 + MaxTicks * TickMs
    /\ conn' = "down"
    /\ clock' = clock + sleep
    /\ backoff' = sleep
    /\ oracle' = [oracle EXCEPT !.trades = <<>>]
    /\ ret' = [op |-> "disconnect", raised |-> FALSE, a |-> NoArgs]
    /\ cmp' = NoCompute
    /\ UNCHANGED <<adapter, aggVars, botVars, fetcher, reader, cfgVars>>

\* a transport error (aiohttp.ClientError, asyncio.TimeoutError) ends the connection;
\* the except clause sleeps, then the loop reconnects
WsError(sleep) ==
    /\ conn = "up"
    /\ clock + sleep <= T0 + MaxTicks * TickMs
    /\ conn' = "down"
    /\ clock' = clock + sleep
    /\ backoff' = sleep
    /\ ret' = [op |-> "disconnect", raised |-> FALSE, a |-> NoArgs]
    /\ cmp' = NoCompute
    /\ UNCHANGED <<adapter, oracle, aggVars, botVars, fetcher, reader, cfgVars>>

\* usdt_price_fetcher: oracle.set_usdt_usd_price(price)
FetchRate(price) ==
    /\ oracle' = set_usdt_usd_price(oracle, price)
    /\ ret' = [op |-> "set_usdt_usd_price", raised |-> FALSE, a |-> [price |-> price]]
    /\ cmp' = NoCompute
    /\ UNCHANGED <<clock, adapter, conn, aggVars, botVars, backoff, fetcher, reader, cfgVars>>

\* usdt_price_fetcher: one iteration of its `while True` loop
UsdtPriceFetched(price) ==
    /\ fetcher.alive
    /\ oracle' = set_usdt_usd_price(oracle, price)
    /\ fetcher' = [alive |-> TRUE, delay |-> BaseDelayUs, slept |-> NormalIntervalUs]
    /\ ret' = [op |-> "fetch", raised |-> FALSE, a |-> [outcome |-> "ok", price |-> price]]
    /\ cmp' = NoCompute
    /\ UNCHANGED <<clock, adapter, conn, aggVars, botVars, backoff, reader, cfgVars>>

UsdtPriceFetchFailed(outcome, jitter) ==
    /\ fetcher.alive
    /\ fetcher' = IF outcome \in CaughtFetches
                  THEN [alive |-> TRUE, delay |-> NextDelay(fetcher.delay, jitter),
                        slept |-> fetcher.delay]
                  ELSE [fetcher EXCEPT !.alive = FALSE]
    /\ ret' = [op |-> "fetch", raised |-> outcome \notin CaughtFetches,
               a |-> [outcome |-> outcome, price |-> None]]
    /\ cmp' = NoCompute
    /\ UNCHANGED <<clock, adapter, conn, oracle, aggVars, botVars, backoff, reader, cfgVars>>

\* the bot's hot reload: feed.update_parameters(...)
UpdateParameters(w, s, m) ==
    /\ LET r == update_parameters(oracle, clock, w, s, m)
       IN  /\ oracle' = r.self
           /\ ret' = [op |-> "update_parameters", raised |-> r.raised,
                      a |-> [window_sec |-> w, startup_window_sec |-> s, min_notional |-> m,
                             removed_count |-> Len(oracle.trades) - Len(r.self.trades)]]
    /\ cmp' = NoCompute
    /\ UNCHANGED <<clock, adapter, conn, aggVars, botVars, backoff, fetcher, reader, cfgVars>>

\* feed.get_price(): oracle.compute(fallback_mid)
GetPrice(fallback_mid) ==
    /\ LET r == compute(oracle, clock, fallback_mid)
       IN  /\ oracle' = r.self
           /\ cmp' = Computed(r, fallback_mid)
           /\ ret' = [op |-> "get_price", raised |-> r.raised,
                      a |-> [shape |-> FeedGetPrice(adapter, r).shape]]
    /\ UNCHANGED <<clock, adapter, conn, aggVars, botVars, backoff, fetcher, reader, cfgVars>>

\* `await feed.get_price()`: the coroutine runs up to the call of compute()
GetPriceEnter(fallback_mid) ==
    /\ reader.pc = "idle"
    /\ reader' = [reader EXCEPT !.pc = "entered", !.fallback = fallback_mid]
    /\ ret' = [op |-> "get_price_enter", raised |-> FALSE, a |-> NoArgs]
    /\ cmp' = NoCompute
    /\ UNCHANGED <<clock, adapter, conn, oracle, aggVars, botVars, backoff, fetcher, cfgVars>>

\* compute() reads the clock, passes the start-up gate and builds meta; in the
\* start-up window it returns here
ComputeMeta ==
    /\ reader.pc = "entered"
    /\ IF InStartup(oracle, clock)
       THEN LET r == compute(oracle, clock, reader.fallback)
            IN  /\ reader' = [reader EXCEPT !.pc = "idle", !.now = clock,
                                            !.trades = r.meta.trades, !.price = r.price,
                                            !.raised = r.raised, !.calls = 1]
                /\ cmp' = Computed(r, reader.fallback)
                /\ ret' = [op |-> "get_price", raised |-> r.raised,
                           a |-> [shape |-> FeedGetPrice(adapter, r).shape]]
       ELSE /\ reader' = [reader EXCEPT !.pc = "counted", !.now = clock,
                                        !.trades = Len(oracle.trades)]
            /\ cmp' = NoCompute
            /\ ret' = [op |-> "compute_meta", raised |-> FALSE, a |-> NoArgs]
    /\ UNCHANGED <<clock, adapter, conn, oracle, aggVars, botVars, backoff, fetcher, cfgVars>>

\* compute() prices the trade list, stores last_price and returns (price, meta)
ComputePrice ==
    /\ reader.pc = "counted"
    /\ LET r == compute(oracle, reader.now, reader.fallback)
           m == [r EXCEPT !.meta.trades = reader.trades]
       IN  /\ oracle' = r.self
           /\ reader' = [reader EXCEPT !.pc = "idle", !.price = r.price,
                                       !.raised = r.raised, !.calls = 1]
           /\ cmp' = Computed(m, reader.fallback)
           /\ ret' = [op |-> "get_price", raised |-> r.raised,
                      a |-> [shape |-> FeedGetPrice(adapter, r).shape]]
    /\ UNCHANGED <<clock, adapter, conn, aggVars, botVars, backoff, fetcher, cfgVars>>

\* announcer_update_bot starts: the env values are read and TTL_BUFFER_ADJ is set
BotStart(run, cont, ttl) ==
    /\ params' = StartupParams(run, cont, ttl)
    /\ ret' = [op |-> "bot_start", raised |-> FALSE,
               a |-> [run |-> run, cont |-> cont, ttl |-> ttl]]
    /\ cmp' = NoCompute
    /\ UNCHANGED <<clock, adapter, conn, oracle, aggVars, botVars, backoff, fetcher, reader,
                   configure>>

\* the head of a loop iteration: load_dotenv(override=True) succeeded and the
\* parameters are compared with the reloaded env values
BotReload(run, cont, ttl) ==
    /\ params' = ReloadParams(params, run, cont, ttl)
    /\ ret' = [op |-> "bot_reload", raised |-> FALSE,
               a |-> [run |-> run, cont |-> cont, ttl |-> ttl]]
    /\ cmp' = NoCompute
    /\ UNCHANGED <<clock, adapter, conn, oracle, aggVars, botVars, backoff, fetcher, reader,
                   configure>>

\* one iteration of announcer_configure_bot
ConfigureBotIteration(shown, statutes, bill_coins, xch_balance) ==
    /\ configure' = ConfigureIteration(shown, statutes, bill_coins, xch_balance, ConfigureEnv)
    /\ ret' = [op |-> "configure_iteration", raised |-> FALSE, a |-> NoArgs]
    /\ cmp' = NoCompute
    /\ UNCHANGED <<clock, adapter, conn, oracle, aggVars, botVars, backoff, fetcher, reader,
                   params>>

Tick ==
    /\ clock < T0 + MaxTicks * TickMs
    /\ clock' = clock + TickMs
    /\ ret' = [op |-> "tick", raised |-> FALSE, a |-> NoArgs]
    /\ cmp' = NoCompute
    /\ UNCHANGED <<adapter, conn, oracle, aggVars, botVars, backoff, fetcher, reader, cfgVars>>

(* --------------------------- specifications --------------------------- *)
\* <<px, qty>> of the trades: one below min_notional, two at or above it with
\* different weights
TradeKinds == {<<5, 1>>, <<5, 2>>, <<20, 1>>}
\* the trades of Spec, all accepted at rate 1
WindowTrades == {<<5, 2>>, <<20, 1>>}

\* Spec: the trade window and the start-up gate. The adapter subscribes and delivers
\* trades as they happen, callers poll get_price(), the rate gets fetched, time passes.
Next ==
    \/ WsConnect
    \/ WsSubscribed(None)
    \/ \E pair \in TradingPairs(adapter), t \in WindowTrades : WsTrade(pair, 0, t[1], t[2], None)
    \/ FetchRate(Num(1, 1))
    \/ \E fb \in Fallbacks : GetPrice(fb)
    \/ Tick

Spec == Init /\ [][Next]_vars

\* SpecAdapter: connections come and go under each of the three adapters.
NextAdapter ==
    \/ WsConnect
    \/ WsSubscribed(None)
    \/ \E pair \in TradingPairs(adapter) : WsTrade(pair, 0, 20, 1, None)
    \/ \E sleep \in Sleeps : WsError(sleep)
    \/ \E sleep \in Sleeps : WsConnectFailed(sleep)
    \/ WsClosed
    \/ FetchRate(Num(1, 1))
    \/ GetPrice(None)
    \/ Tick

SpecAdapter == Init /\ [][NextAdapter]_vars

\* SpecRate: the USDT/USD rate is fetched with every kind of value while trades of
\* every pair and size arrive.
InitRate == Init /\ oracle.startup_window = 0

NextRate ==
    \/ WsConnect
    \/ \E pair \in TradingPairs(adapter), t \in TradeKinds :
          WsTrade(pair, 0, t[1], t[2], None)
    \/ \E price \in RateInputs : FetchRate(price)
    \/ Tick

SpecRate == InitRate /\ [][NextRate]_vars

\* SpecFetcher: the rate fetcher polls, with every outcome a fetch can have, while
\* the feed is read.
InitFetcher == Init /\ adapter = "okx" /\ oracle.startup_window = 0

NextFetcher ==
    \/ \E price \in FetchedAmounts : UsdtPriceFetched(price)
    \/ \E outcome \in FailedFetches, jitter \in Jitters : UsdtPriceFetchFailed(outcome, jitter)
    \/ GetPrice(None)
    \/ Tick

SpecFetcher == InitFetcher /\ [][NextFetcher]_vars

\* SpecSched: the adapter task, the rate fetcher and the bot's hot reload run
\* whenever the consumer task is suspended; the consumer calls get_price().
InitSched == Init /\ adapter = "gate" /\ oracle.startup_window = 0

NextSched ==
    \/ Suspends(reader.pc) /\ WsConnect
    \/ Suspends(reader.pc) /\ WsSubscribed(None)
    \/ Suspends(reader.pc) /\ \E t \in WindowTrades : WsTrade("XCH_USDT", 0, t[1], t[2], None)
    \/ Suspends(reader.pc) /\ FetchRate(Num(1, 1))
    \/ Suspends(reader.pc) /\ UpdateParameters(ArgNum(2), ArgNone, ArgNone)
    \/ \E fb \in Fallbacks : GetPriceEnter(fb)
    \/ ComputeMeta
    \/ ComputePrice
    \/ Tick

SpecSched == InitSched /\ [][NextSched]_vars

\* SpecReload: announcer_update_bot is started and hot-reloads its env values.
RunIntervals == {10, 60}
ContinueDelays == {10, 60}
TtlBuffers == {0, TtlBufferAdj, 400}

NextReload ==
    \/ \E run \in RunIntervals, cont \in ContinueDelays, ttl \in TtlBuffers :
          BotStart(run, cont, ttl)
    \/ \E run \in RunIntervals, cont \in ContinueDelays, ttl \in TtlBuffers :
          BotReload(run, cont, ttl)
    \/ Tick

InitReload == Init /\ adapter = "okx" /\ oracle.startup_window = 5

SpecReload == InitReload /\ [][NextReload]_vars

\* SpecConfigure: announcer_configure_bot iterates over what the RPC server can
\* return: announcers, Statutes, enacted bills of every status, wallet balances.
Bill(index, value, status) ==
    [ok |-> TRUE, statute_index |-> index, value |-> value, status |-> status]

BillCoins ==
    {Bill(StatuteAnnouncerMinimumDeposit, 3, "IMPLEMENTABLE"),
     Bill(StatuteAnnouncerMinimumDeposit, 1, "IN_IMPLEMENTATION_DELAY"),
     Bill(StatuteAnnouncerMinimumDeposit, 5, "LAPSED"),
     Bill(StatuteAnnouncerMaximumValueTtl, 1, "IN_IMPLEMENTATION_DELAY"),
     Bill(StatuteAnnouncerMaximumValueTtl, 3, "IMPLEMENTABLE"),
     Bill(StatuteAnnouncerMaximumValueTtl, 0, "IMPLEMENTED"),
     Bill(1, 9, "IMPLEMENTABLE"),
     [ok |-> FALSE, statute_index |-> 0, value |-> 0, status |-> ""]}

BillLists == {<<>>} \cup {<<b>> : b \in BillCoins} \cup {<<b, c>> : b, c \in BillCoins}

StatutesRead == [min_deposit |-> 2, price_ttl |-> 2]

ApprovedAnnouncer == [approved |-> TRUE, min_deposit |-> 2, deposit |-> 12, price_ttl |-> 2]
UnapprovedAnnouncer == [approved |-> FALSE, min_deposit |-> 3, deposit |-> 3, price_ttl |-> 1]
ShownAnnouncers ==
    {<<>>, <<ApprovedAnnouncer>>, <<UnapprovedAnnouncer>>,
     <<UnapprovedAnnouncer, ApprovedAnnouncer>>}

NextConfigure ==
    \/ \E shown \in ShownAnnouncers, bills \in BillLists, balance \in {0, 100} :
          ConfigureBotIteration(Returns(shown), Returns(StatutesRead), Returns(bills),
                                Returns(balance))
    \/ \E shown \in {Raises(<<>>), Returns(<<UnapprovedAnnouncer>>)},
          statutes \in {Raises(StatutesRead), Returns(StatutesRead)},
          bills \in {Raises(<<>>), Returns(<<>>)},
          balance \in {Raises(0), Returns(100)} :
          ConfigureBotIteration(shown, statutes, bills, balance)

InitConfigure == Init /\ adapter = "okx" /\ oracle.startup_window = 5

SpecConfigure == InitConfigure /\ [][NextConfigure]_vars

\* SpecParams: the bot reloads the Oracle's parameters while trades arrive, fresh
\* and late ones.
InitParams == Init /\ adapter = "okx" /\ oracle.startup_window = 5

NextParams ==
    \/ WsConnect
    \/ \E lag \in Lags : WsTrade("XCH-USD", lag, 20, 1, None)
    \/ \E w \in WindowArgs, s \in StartupArgs, m \in NotionalArgs : UpdateParameters(w, s, m)
    \/ Tick

SpecParams == InitParams /\ [][NextParams]_vars

\* SpecAgg: the aggregator of example() polled for MaxCycles cycles.
InitAgg == InitAggregator /\ InitFeed /\ adapter = "okx" /\ oracle.startup_window = 0

NextAgg ==
    \E o1 \in OutcomesOf(feeds[1]), o2 \in OutcomesOf(feeds[2]), o3 \in OutcomesOf(feeds[3]) :
        Cycle(<<o1, o2, o3>>)

SpecAgg == InitAgg /\ [][NextAgg]_vars

\* SpecWarm: one cycle of the aggregator of example() after it has run for a while:
\* the two feeds that get counted hold the trade counts of earlier cycles.
HistCounts == {0, 1}
Histories == UNION {[1..n -> HistCounts] : n \in 0..HistoryLength}
FullHistory == [i \in 1..HistoryLength |-> 1]

InitWarm ==
    /\ InitFeed /\ adapter = "okx" /\ oracle.startup_window = 0
    /\ feeds = ExampleFeeds
    /\ min_valid_feeds = DefaultMinValidFeeds
    /\ aggregation_method = "volume_weighted"
    /\ \E h2 \in Histories, h3 \in {<<>>, FullHistory} : volume_history = <<<<>>, h2, h3>>
    /\ cycles = MaxCycles - 1
    /\ agg = NoCall

SpecWarm == InitWarm /\ [][NextAgg]_vars


\* SpecCtor: aggregators get constructed over one to three feeds with every
\* min_valid_feeds up to MaxMinValid, and the one that exists is polled.
\* feeds = <<>> while no aggregator exists.
MaxMinValid == 4
FeedLists == {SubSeq(ExampleFeeds, k, 3) : k \in 1..3}
CtorOutcomes == {OutPrice(NaN, 0), OutPrice(Num(100, 1), 1), OutPrice(Num(100, 1), 9)}

\* `if len(feeds) < min_valid_feeds: raise ValueError`
ConstructorRaises_Inclusive(feeds_, min_valid_feeds_) == Len(feeds_) <= min_valid_feeds_

ConstructorRaises(feeds_, min_valid_feeds_) == Len(feeds_) < min_valid_feeds_

\* PriceAggregator(feeds, min_valid_feeds, aggregation_method): the object exists
\* only when __init__ returns
Construct(feeds_, min_valid_feeds_, method_) ==
    /\ feeds = <<>>
    /\ IF ConstructorRaises(feeds_, min_valid_feeds_)
       THEN UNCHANGED <<feeds, min_valid_feeds, aggregation_method, volume_history>>
       ELSE /\ feeds' = feeds_
            /\ min_valid_feeds' = min_valid_feeds_
            /\ aggregation_method' = method_
            /\ volume_history' = [i \in 1..Len(feeds_) |-> <<>>]
    /\ ret' = [op |-> "construct", raised |-> ConstructorRaises(feeds_, min_valid_feeds_),
               a |-> [feeds |-> feeds_, min_valid_feeds |-> min_valid_feeds_]]
    /\ UNCHANGED <<clock, adapter, conn, oracle, cmp, cycles, agg, botVars, backoff, fetcher, reader, cfgVars>>

InitCtor ==
    /\ InitFeed /\ adapter = "okx" /\ oracle.startup_window = 0
    /\ feeds = <<>>
    /\ min_valid_feeds = 0
    /\ aggregation_method = "volume_weighted"
    /\ volume_history = <<>>
    /\ cycles = 0
    /\ agg = NoCall

NextCtor ==
    \/ \E f \in FeedLists, mv \in 0..MaxMinValid, m \in Methods : Construct(f, mv, m)
    \/ /\ feeds # <<>>
       /\ \E outs \in [1..Len(feeds) -> CtorOutcomes] : Cycle(outs)

SpecCtor == InitCtor /\ [][NextCtor]_vars

\* SpecTrim: up to MinTrim + 1 trades at ordinary prices and at ten times the
\* ordinary price fill the window of a running feed, and callers poll the price.
TrimPxs == {20, 21, 200}
TrimQtys == {1, 2}

InitTrim == Init /\ adapter = "okx" /\ oracle.startup_window = 0

NextTrim ==
    \/ WsConnect
    \/ \E px \in TrimPxs, qty \in TrimQtys :
          WsTradeUpTo(MinTrim + 1, "XCH-USD", 0, px, qty, None)
    \/ GetPrice(None)

SpecTrim == InitTrim /\ [][NextTrim]_vars

\* SpecOkxFeed: the OkxFeed object. The websocket library calls it with the
\* subscription event, with trade messages and with other events; a bot polls
\* get_price(); time passes.
MaxFeed == 3
OkxData == {<<[px |-> 20, sz |-> 1, ts |-> 0]>>, <<[px |-> 40, sz |-> 2, ts |-> 0]>>,
            <<[px |-> 20, sz |-> 1, ts |-> 0], [px |-> 40, sz |-> 1, ts |-> 0]>>}
CoinbasePrices == {None, Num(2, 1)}
OkxStartupWindows == {5}
OkxWindowLength == 5

\* the trades of a message carry the time of the message
Stamp(data, now) == [i \in 1..Len(data) |-> [data[i] EXCEPT !.ts = now]]

OkxDeliver(msg, coinbase_price) ==
    /\ LET r == OkxFeedCall(okx_feed, clock, msg, coinbase_price)
       IN  /\ okx_feed' = r.self
           /\ ret' = [op |-> "okx_message", raised |-> r.raised,
                      a |-> [kind |-> msg.kind, had |-> Len(okx_feed.feed),
                             popped |-> IF msg.kind = "data" /\ okx_feed.starttime > 0
                                        THEN Len(okx_feed.feed)
                                                 - Len(PopOld(okx_feed, clock).feed)
                                        ELSE 0]]
    /\ cmp' = NoCompute
    /\ UNCHANGED <<clock, adapter, conn, oracle, aggVars, bot, backoff, fetcher, reader, cfgVars>>

OkxSubscribed == OkxDeliver([kind |-> "subscribe", data |-> <<>>], None)

OkxTrades(data, coinbase_price) ==
    /\ Len(PopOld(okx_feed, clock).feed) + Len(data) <= MaxFeed
    /\ OkxDeliver([kind |-> "data", data |-> Stamp(data, clock)], coinbase_price)

OkxOtherMessage(kind) == OkxDeliver([kind |-> kind, data |-> <<>>], None)

OkxGetPrice ==
    /\ ret' = [op |-> "okx_get_price", raised |-> FALSE,
               a |-> [price |-> OkxFeedGetPrice(okx_feed)]]
    /\ cmp' = NoCompute
    /\ UNCHANGED <<clock, adapter, conn, oracle, aggVars, botVars, backoff, fetcher, reader, cfgVars>>

InitOkxFeed ==
    /\ clock = T0
    /\ adapter = "okx"
    /\ conn = "down"
    /\ oracle = OracleInit(DefaultWindow, 0, DefaultMinNotional)
    /\ ret = [op |-> "init", raised |-> FALSE, a |-> NoArgs]
    /\ cmp = NoCompute
    /\ InitAggregator
    /\ aggregation_method = "volume_weighted"
    /\ \E c \in BOOLEAN, s \in OkxStartupWindows :
          okx_feed = OkxFeedInitFor(c, s, OkxWindowLength)
    /\ bot = NoIteration
    /\ backoff = -1
    /\ fetcher = FetcherInit
    /\ reader = ReaderInit
    /\ params = ParamsInit
    /\ configure = NoConfigure

NextOkxFeed ==
    \/ OkxSubscribed
    \/ \E data \in OkxData, cb \in CoinbasePrices : OkxTrades(data, cb)
    \/ \E kind \in {"event", "error"} : OkxOtherMessage(kind)
    \/ OkxGetPrice
    \/ Tick

SpecOkxFeed == InitOkxFeed /\ [][NextOkxFeed]_vars

\* SpecBot: announcer_update_bot polling its OkxOracleFeed. The adapter subscribes and
\* delivers trades, the rate gets fetched, time passes, and the loop runs iterations
\* against whatever announcer_show reports.
AnnouncerPrices == {0, 2000}
Expiries == {TtlBufferAdj, TtlBufferAdj + 1}
AnnouncerSet == [price : AnnouncerPrices, expires_in : Expiries, approved : BOOLEAN]
Unapproved == [price |-> 7, expires_in |-> TtlBufferAdj, approved |-> FALSE]
AnnouncerLists ==
    {<<>>, <<Unapproved>>}
        \cup {<<a>> : a \in {x \in AnnouncerSet : x.approved}}
        \cup {<<Unapproved, a>> : a \in {x \in AnnouncerSet : x.price = 0}}

BotIteration(shown_, announcers, fallback_mid, rpc_raises) ==
    /\ LET polls == shown_ = "ok" /\ announcers # <<>>
           r == compute(oracle, clock, fallback_mid)
           g == FeedGetPrice("okx", r)
       IN  /\ bot' = Iteration(shown_, announcers,
                               IF polls THEN [price |-> g.price, raised |-> g.raised]
                               ELSE NoReading,
                               rpc_raises)
           /\ oracle' = IF polls THEN r.self ELSE oracle
           /\ cmp' = IF polls THEN Computed(r, fallback_mid) ELSE NoCompute
    /\ ret' = [op |-> "iteration", raised |-> FALSE, a |-> NoArgs]
    /\ UNCHANGED <<clock, adapter, conn, aggVars, okx_feed, backoff, fetcher, reader, cfgVars>>

\* the bot's feed: OkxOracleFeed([sym], ...) with a start-up window of 5 s
InitBot == Init /\ adapter = "okx" /\ oracle.startup_window = 5

NextBot ==
    \/ WsConnect
    \/ WsSubscribed(None)
    \/ WsTradeUpTo(1, "XCH-USDT", 0, 20, 1, None)
    \/ FetchRate(Num(1, 1))
    \/ \E anns \in AnnouncerLists, x \in BOOLEAN : BotIteration("ok", anns, None, x)
    \/ BotIteration("raise", <<>>, None, FALSE)
    \/ Tick

SpecBot == InitBot /\ [][NextBot]_vars

(* ------------------------------- claims -------------------------------- *)
\* milliseconds between the first subscription and now
SinceStartMs == clock - (oracle.start_time.n * MsPerSec) \div oracle.start_time.d

\* the trades of the list whose timestamp lies in [now - window, now]
InWindow == SelectSeq(oracle.trades,
                      LAMBDA t : t.ts >= clock - oracle.window * MsPerSec /\ t.ts <= clock)

\* C3: every compute() made while start_time is set and now - start_time <
\* startup_window returns NaN with startup = true, whatever the trades and the
\* fallback; once now - start_time >= startup_window and the list holds trades with
\* positive volume, compute() returns a number.
C3_StartupGate ==
    cmp.called /\ ~IsNone(oracle.start_time) =>
        /\ SinceStartMs < oracle.startup_window * MsPerSec =>
              IsNaN(cmp.price) /\ cmp.meta.startup /\ ~cmp.raised
        /\ (SinceStartMs >= oracle.startup_window * MsPerSec
              /\ oracle.trades # <<>> /\ SumQty(oracle.trades) > 0) =>
              IsNum(cmp.price) /\ ~cmp.meta.startup /\ ~cmp.raised

\* a compute() inside the start-up window with trades in the list and a fallback passed
C3_Witness ==
    /\ cmp.called /\ ~IsNone(oracle.start_time)
    /\ SinceStartMs > 0
    /\ SinceStartMs < oracle.startup_window * MsPerSec
    /\ oracle.trades # <<>>
    /\ IsNum(cmp.fallback)
    /\ IsNaN(cmp.price)

\* C4: the price compute() derives from trades (start-up over, no trimming) is the
\* VWAP of exactly the trades with a timestamp in [now - window, now].
C4_WindowVwap ==
    (cmp.called /\ ~cmp.raised /\ ~cmp.meta.startup /\ ~cmp.meta.degraded
        /\ ~TrimTriggered(oracle.trades)) =>
        InWindow # <<>> /\ cmp.price = Vwap(InWindow)

\* the cycle just run reached the protections: enough valid feeds, at least two,
\* and the deviation step did not raise
Protected ==
    /\ agg.called
    /\ Len(agg.valid) >= 2
    /\ ~Insufficient(agg.valid, min_valid_feeds)
    /\ ~DeviationRaises(agg.valid)

\* C1: after the protections of a cycle with at least two valid feeds and a positive
\* total trade count, no feed's effective trade count divided by the sum of the
\* effective trade counts exceeds max_single_feed_weight.
C1_MaxWeight ==
    (Protected /\ SumSeq(agg.effective) > 0) =>
        \A i \in 1..Len(agg.valid) :
            agg.effective[i] * MaxWeightDen <= MaxWeightNum * SumSeq(agg.effective)

\* C2: with a known aggregation method, a cycle returns NaN (no raise) when fewer
\* than min_valid_feeds feeds were valid, and a number when at least that many were.
C2_NaNIffInsufficient ==
    (agg.called /\ aggregation_method \in KnownMethods) =>
        IF Len(agg.valid) < min_valid_feeds THEN IsNaN(agg.result)
        ELSE IsNum(agg.result)

\* C5: a feed whose oracle computes a non-NaN price without raising is counted among
\* the valid feeds of the cycle, for each of the three adapters.
C5_AdaptersCounted ==
    agg.called =>
        \A i \in 1..Len(feeds) :
            (~agg.outs[i].raised /\ IsNum(agg.outs[i].price)) => agg.polls[i].ok

\* feed i of the valid feeds of the cycle just run: the history it holds (the current
\* sample last), the sum and the number of the previous samples, the current count
HistOf(i) == volume_history[agg.valid[i].feed]
PrevLen(i) == Len(HistOf(i)) - 1
PrevSum(i) == SumSeq(SubSeq(HistOf(i), 1, PrevLen(i)))
Current(i) == agg.valid[i].trades

\* C6 as stated: a feed whose current trade count exceeds volume_spike_threshold
\* times the average of its previous samples is weighted with at most that multiple,
\* however many previous samples the history holds.
C6_SpikeCapAlways ==
    Protected =>
        \A i \in 1..Len(agg.valid) :
            (PrevLen(i) >= 1 /\ Current(i) * PrevLen(i) > SpikeThreshold * PrevSum(i)) =>
                agg.effective[i] * PrevLen(i) <= SpikeThreshold * PrevSum(i)

\* C6 amended: the cap applies when the history holds more than 3 samples (the current
\* one included) and the previous average is positive; then the count after the spike
\* step is int(threshold * average), which the weight cap can only lower; in every
\* other case the spike step leaves the count as reported.
C6_SpikeCapWarm ==
    Protected =>
        \A i \in 1..Len(agg.valid) :
            IF /\ Len(HistOf(i)) > MinHistory
               /\ PrevSum(i) > 0
               /\ Current(i) * PrevLen(i) > SpikeThreshold * PrevSum(i)
            THEN /\ agg.spiked[i] = (SpikeThreshold * PrevSum(i)) \div PrevLen(i)
                 /\ agg.effective[i] <= agg.spiked[i]
            ELSE agg.spiked[i] = Current(i)

\* a spike against a warm history got capped below the reported count
C6_Witness ==
    /\ Protected
    /\ \E i \in 1..Len(agg.valid) :
          /\ Len(HistOf(i)) > MinHistory
          /\ PrevSum(i) > 0
          /\ Current(i) * PrevLen(i) > SpikeThreshold * PrevSum(i)
          /\ agg.spiked[i] < Current(i)
          /\ agg.spiked[i] > 0

\* the arguments of the update_parameters call just made
Passed(a) == a.t # "none"
InvalidCall ==
    \/ Passed(ret'.a.window_sec) /\ (ret'.a.window_sec.t # "num" \/ ret'.a.window_sec.v <= 0)
    \/ Passed(ret'.a.startup_window_sec)
          /\ (ret'.a.startup_window_sec.t # "num" \/ ret'.a.startup_window_sec.v < 0)
    \/ Passed(ret'.a.min_notional)
          /\ (ret'.a.min_notional.t # "num" \/ ret'.a.min_notional.v < 0)

\* C7: an update_parameters call with any invalid argument raises and leaves window,
\* startup_window, min_notional and the trade list as they were before the call.
C7_InvalidLeavesState ==
    [][(ret'.op = "update_parameters" /\ InvalidCall) =>
          /\ ret'.raised
          /\ oracle'.window = oracle.window
          /\ oracle'.startup_window = oracle.startup_window
          /\ oracle'.min_notional = oracle.min_notional
          /\ oracle'.trades = oracle.trades]_vars

\* C8: start_time is written once, by a subscription confirmation (or welcome) with
\* the time of that message; once set, no step of the adapter changes it.
C8_StartTimeOnce ==
    [][/\ ~IsNone(oracle.start_time) => oracle'.start_time = oracle.start_time
       /\ (IsNone(oracle.start_time) /\ ~IsNone(oracle'.start_time)) =>
             /\ ret'.op = "subscribed"
             /\ oracle'.start_time.n * MsPerSec = clock * oracle'.start_time.d]_vars

\* a subscription confirmed later than the first one, start_time still the first
C8_Witness ==
    /\ ret.op = "subscribed"
    /\ ~IsNone(oracle.start_time)
    /\ SinceStartMs > 0

\* the pairs quoted in USDT, and the trade of the add_trade call just made
UsdtPairs == {"XCH-USDT", "XCH_USDT"}
RateSet == IsNum(oracle.usdt_usd_price)
CallBelowNotional ==
    IF ret'.a.pair \in UsdtPairs
    THEN /\ RateSet
         /\ ret'.a.px * ret'.a.qty * oracle.usdt_usd_price.n
               < oracle.min_notional * oracle.usdt_usd_price.d
    ELSE ret'.a.px * ret'.a.qty < oracle.min_notional

\* C9: an add_trade whose USD price times quantity is below min_notional leaves the
\* trade list unchanged.
C9_SubNotionalDropped ==
    [][(ret'.op = "add_trade" /\ CallBelowNotional) => oracle'.trades = oracle.trades]_vars

\* a sub-threshold trade was offered to a list that holds trades, none below the
\* threshold
C9_Witness ==
    /\ ret.op = "add_trade"
    /\ ret.a.pair \notin UsdtPairs
    /\ ret.a.px * ret.a.qty < oracle.min_notional
    /\ oracle.trades # <<>>
    /\ \A i \in 1..Len(oracle.trades) :
          oracle.trades[i].px * oracle.trades[i].qty >= oracle.min_notional

\* the Oracle without the bookkeeping of the publish that follows add_trade in the
\* message loop (last_pub, last_price)
Stored(o) == [o EXCEPT !.last_pub = 0, !.last_price = NaN]

IsSuffix(s, t) == \E k \in 0..Len(t) : s = SubSeq(t, k + 1, Len(t))

\* C10: while the rate is unset an add_trade on a USDT-quoted pair changes nothing
\* and raises nothing; with a rate r set, an accepted trade on a USDT-quoted pair is
\* stored last with price px * r; the list only ever loses trades from its head and
\* gains the trade of the call, so a dropped trade never reappears.
C10_UsdtConversion ==
    [][/\ (ret'.op = "add_trade" /\ ret'.a.pair \in UsdtPairs /\ ~RateSet) =>
             Stored(oracle') = Stored(oracle) /\ ~ret'.raised
       /\ (ret'.op = "add_trade" /\ ret'.a.pair \in UsdtPairs /\ RateSet
             /\ ~CallBelowNotional) =>
             /\ oracle'.trades # <<>>
             /\ LET t == oracle'.trades[Len(oracle'.trades)]
                IN  /\ t.ts = ret'.a.ts /\ t.qty = ret'.a.qty
                    /\ t.px * oracle.usdt_usd_price.d = ret'.a.px * oracle.usdt_usd_price.n
       /\ IF ret'.op = "add_trade" /\ oracle'.trades # oracle.trades
          THEN /\ oracle'.trades # <<>>
               /\ IsSuffix(oracle'.trades,
                           Append(oracle.trades, oracle'.trades[Len(oracle'.trades)]))
               /\ oracle'.trades[Len(oracle'.trades)].ts = ret'.a.ts
          ELSE IsSuffix(oracle'.trades, oracle.trades)]_vars

\* a USDT-quoted trade stored at a rate other than 1
C10_Witness ==
    /\ ret.op = "add_trade"
    /\ ret.a.pair \in UsdtPairs
    /\ RateSet /\ oracle.usdt_usd_price.n > oracle.usdt_usd_price.d
    /\ oracle.trades # <<>>
    /\ LET t == oracle.trades[Len(oracle.trades)]
       IN  /\ t.ts = ret.a.ts
           /\ t.px * oracle.usdt_usd_price.d = ret.a.px * oracle.usdt_usd_price.n

\* feed i's oracle computed a usable price in the cycle recorded in a
UsablePrice(a, i) == ~a.outs[i].raised /\ IsNum(a.outs[i].price)
TakesPart(a, i) == a.polls[i].ok /\ \E j \in 1..Len(a.valid) : a.valid[j].feed = i

\* C11: a feed left out of one cycle (NaN, None or a failure) takes part in the next
\* cycle in which it returns a valid price; no state of the aggregator bars it.
C11_ExcludedOnlyThatCycle ==
    [][(agg.called /\ agg'.called /\ cycles' = cycles + 1) =>
          \A i \in 1..Len(feeds) :
              (~agg.polls[i].ok /\ UsablePrice(agg', i)) => TakesPart(agg', i)]_vars

\* C12: with an aggregation method that is none of the three known ones, every
\* get_aggregated_price call raises, whatever the feeds return.
C12_UnknownMethodRaises ==
    (agg.called /\ aggregation_method \notin KnownMethods) => agg.result = Raise

\* C13: constructing a PriceAggregator raises exactly when the number of feeds is
\* less than min_valid_feeds; an aggregator that exists has the feeds and the minimum
\* it was constructed with, and len(feeds) >= min_valid_feeds.
C13_ConstructorGuard ==
    /\ ret.op = "construct" =>
          /\ ret.raised <=> Len(ret.a.feeds) < ret.a.min_valid_feeds
          /\ ret.raised => feeds = <<>>
          /\ ~ret.raised => feeds = ret.a.feeds /\ min_valid_feeds = ret.a.min_valid_feeds
    /\ feeds # <<>> => Len(feeds) >= min_valid_feeds

\* an aggregator constructed with exactly min_valid_feeds feeds has been polled
C13_Witness ==
    /\ ret.op = "construct" /\ ~ret.raised
    /\ Len(feeds) = min_valid_feeds
    /\ agg.called

\* a / b = c / d for positive b and d
SameRatio(a, b, c, d) == a * d = c * b

Outliers == SelectSeq(oracle.trades, LAMBDA t : t.px = 10 * SortedPrices(oracle.trades)[1])
NonOutliers == SelectSeq(oracle.trades, LAMBDA t : t.px < 2 * SortedPrices(oracle.trades)[1])
OutlierCase ==
    /\ cmp.called /\ ~cmp.raised /\ ~cmp.meta.startup
    /\ Len(oracle.trades) = MinTrim + 1
    /\ Len(Outliers) = 1 /\ Len(NonOutliers) = MinTrim
    /\ \A i \in 1..Len(NonOutliers) : Outliers[1].qty <= NonOutliers[i].qty
    /\ Deviates(Vwap(oracle.trades), Median(SortedPrices(oracle.trades)))

Delays == {k * TickMs : k \in 0..MaxTicks}
Again(d) == compute(oracle, clock + d, cmp.fallback)
SameButTs(m1, m2) == [m1 EXCEPT !.ts = 0] = [m2 EXCEPT !.ts = 0]
SameButTsAndStale(m1, m2) ==
    [m1 EXCEPT !.ts = 0, !.stale = FALSE] = [m2 EXCEPT !.ts = 0, !.stale = FALSE]
\* the second call is made inside the start-up window; past the staleness threshold
AgainInStartup(d) ==
    ~IsNone(oracle.start_time) /\ SinceStartMs + d < oracle.startup_window * MsPerSec
AgainPastStale(d) == clock + d - oracle.last_trade_ts > StaleMs

\* C16 as stated: a second compute() with the same fallback and nothing in between
\* returns the same price and the same metadata except ts, whatever time has passed.
C16_IdempotentAnyTime ==
    cmp.called =>
        \A d \in Delays :
            /\ Again(d).price = cmp.price
            /\ Again(d).raised = cmp.raised
            /\ SameButTs(Again(d).meta, cmp.meta)

\* C16 amended: both calls inside the start-up window give the same NaN and
\* metadata; both outside give the same price and the same metadata except ts and
\* stale, and stale is the same when both calls are on the same side of the
\* staleness threshold and otherwise turns from false to true.
C16_IdempotentSameSide ==
    cmp.called =>
        \A d \in Delays :
            /\ (cmp.meta.startup /\ AgainInStartup(d)) =>
                  /\ Again(d).price = cmp.price /\ Again(d).raised = cmp.raised
                  /\ Again(d).meta = cmp.meta
            /\ (~cmp.meta.startup /\ ~AgainInStartup(d)) =>
                  /\ Again(d).price = cmp.price /\ Again(d).raised = cmp.raised
                  /\ cmp.raised \/ SameButTsAndStale(Again(d).meta, cmp.meta)
                  /\ Again(d).meta.stale = AgainPastStale(d)
                  /\ cmp.meta.stale => Again(d).meta.stale
                  /\ (AgainPastStale(d) = AgainPastStale(0)) =>
                        Again(d).meta.stale = cmp.meta.stale

\* a compute() from two trades, not stale, after the start-up window, whose repetition
\* some time later returns the same price and is stale
C16_Witness ==
    /\ cmp.called /\ ~cmp.raised /\ ~cmp.meta.startup
    /\ ~IsNone(oracle.start_time) /\ oracle.startup_window > 0
    /\ Len(oracle.trades) > 1 /\ IsNum(cmp.price)
    /\ ~cmp.meta.stale
    /\ \E d \in Delays : Again(d).meta.stale /\ Again(d).price = cmp.price

\* the step made a compute() call that got past the start-up gate and returned
Returned == cmp'.called /\ ~cmp'.raised /\ ~cmp'.meta.startup

C18_StaleFlag ==
    (cmp.called /\ ~cmp.raised /\ clock - oracle.last_trade_ts > StaleMs) =>
        /\ cmp.meta.stale
        /\ (~cmp.meta.startup /\ oracle.trades # <<>>) => IsNum(cmp.price)

\* the OkxFeed has been subscribed and less than startup_window_length has passed
\* since its start time
RampingUp ==
    /\ okx_feed.starttime > 0
    /\ clock - okx_feed.starttime < okx_feed.startup_window_length * MsPerSec

\* C19: OkxFeed.get_price() returns NaN for every call made before
\* startup_window_length has elapsed since the feed's start time (its subscription),
\* whatever trades were received in that period.
C19_WithheldWhileRampingUp ==
    (ret.op = "okx_get_price" /\ RampingUp) => IsNaN(ret.a.price)

\* the iteration polled the feed and get_price() returned NaN or raised
FailedReading == bot.polled /\ (bot.reading.raised \/ IsNaN(bot.reading.price))

Flagged(i) ==
    /\ Len(agg.valid) >= 2
    /\ Deviating(agg.valid[i].price, MedianPrice(agg.valid))

\* the last cycle went through the protections and aggregated
Aggregated ==
    /\ agg.called
    /\ ~Insufficient(agg.valid, min_valid_feeds)
    /\ ~DeviationRaises(agg.valid)
    /\ aggregation_method \in KnownMethods

\* C21: price-deviation flagging is detection only: a feed whose price deviates from
\* the median of the valid prices by more than the threshold stays in the set that
\* is aggregated with its price and trade count as polled; the simple average and
\* the median are those of all valid prices, the flagged ones included.
C21_DetectionOnly ==
    Aggregated =>
        /\ \A i \in 1..Len(agg.valid) :
              Flagged(i) => \E j \in 1..Len(agg.flagged) : agg.flagged[j] = agg.valid[i]
        /\ aggregation_method = "simple_average" =>
              agg.result = RDivInt(SumPrices(PricesOf(agg.valid)), Len(agg.valid))
        /\ aggregation_method = "median" => agg.result = MedianPrice(agg.valid)

C21_Witness ==
    /\ Aggregated
    /\ aggregation_method = "simple_average"
    /\ \E i \in 1..Len(agg.valid) : Flagged(i)
    /\ agg.result = Num(50, 1)

\* C22: whenever at least min_valid_feeds feeds return non-NaN prices, prices of 0.0
\* and a median of 0 included, get_aggregated_price returns a number and does not
\* raise.
C22_ZeroPriceValid ==
    (agg.called /\ aggregation_method \in KnownMethods
        /\ ~Insufficient(agg.valid, min_valid_feeds)) => IsNum(agg.result)

\* sum(size) and sum(price * size) over the deque
RECURSIVE FeedSize(_)
FeedSize(f) == IF f = <<>> THEN 0 ELSE Head(f).sz + FeedSize(Tail(f))

RECURSIVE FeedNotional(_)
FeedNotional(f) ==
    IF f = <<>> THEN Num(0, 1) ELSE RAdd(RScale(Head(f).px, Head(f).sz), FeedNotional(Tail(f)))

\* C23: in OkxFeed, after every websocket callback the running price equals
\* sum(price * size) / sum(size) over the trades in the deque and the running size
\* equals the sum of their sizes; with an empty deque the price is NaN and the size 0.
C23_RunningPrice ==
    IF okx_feed.feed = <<>>
    THEN IsNaN(okx_feed.price) /\ okx_feed.size = 0
    ELSE /\ okx_feed.size = FeedSize(okx_feed.feed)
         /\ okx_feed.price = RDivInt(FeedNotional(okx_feed.feed), FeedSize(okx_feed.feed))

\* a callback that evicted two trades from a deque of three (the incremental formula,
\* then the length-2 case) and appended trades at another price
C23_Witness ==
    /\ ret.op = "okx_message" /\ ret.a.kind = "data" /\ ~ret.raised
    /\ ret.a.had >= 3 /\ ret.a.popped >= 2
    /\ Len(okx_feed.feed) >= 2
    /\ okx_feed.feed[1].px # okx_feed.feed[2].px

\* C24: immediately after Oracle.add_trade returns, the trade list contains no trade
\* whose timestamp is older than now - window, for every order in which trades
\* arrive, a new trade that is itself older than the window included.
C24_NoExpiredTrade ==
    ret.op = "add_trade" =>
        \A i \in 1..Len(oracle.trades) :
            oracle.trades[i].ts >= clock - oracle.window * MsPerSec

\* the trades at the positions in S, in list order
TradesAt(S) == SelectSeq([i \in 1..Len(oracle.trades) |-> [oracle.trades[i] EXCEPT !.ts = i]],
                         LAMBDA t : t.ts \in S)

\* Mid is what is left of the trade list when its k lowest-priced and its k
\* highest-priced trades are taken out
InnerTrades(Mid, k) ==
    \E Lo, Hi \in SUBSET (1..Len(oracle.trades)) :
        /\ Cardinality(Lo) = k /\ Cardinality(Hi) = k
        /\ Lo \cap Hi = {} /\ Lo \cap Mid = {} /\ Hi \cap Mid = {}
        /\ Lo \cup Hi \cup Mid = 1..Len(oracle.trades)
        /\ \A l \in Lo, m \in Mid : oracle.trades[l].px <= oracle.trades[m].px
        /\ \A h \in Hi, m \in Mid : oracle.trades[h].px >= oracle.trades[m].px

\* C25: when compute() finds more than 4 trades and a VWAP more than 3% off the
\* median price, it returns the VWAP over the inner trades sorted by price, the same
\* number (at least one) of lowest-priced and of highest-priced trades left out; in
\* every other case it returns the plain VWAP of all the trades.
C25_SymmetricTrim ==
    (cmp.called /\ ~cmp.raised /\ ~cmp.meta.startup /\ ~cmp.meta.degraded) =>
        IF TrimTriggered(oracle.trades)
        THEN \E k \in 1..((Len(oracle.trades) - 1) \div 2) :
                \E Mid \in SUBSET (1..Len(oracle.trades)) :
                    InnerTrades(Mid, k) /\ cmp.price = Vwap(TradesAt(Mid))
        ELSE cmp.price = Vwap(oracle.trades)

\* the update_parameters call just made passed a valid window_sec smaller than the
\* window before the call
Shrinks ==
    /\ ret'.op = "update_parameters"
    /\ ret'.a.window_sec.t = "num"
    /\ ret'.a.window_sec.v > 0
    /\ ret'.a.window_sec.v < oracle.window

\* the positions of the trade list before the call whose trade is at least as new as
\* now - w
Survivors(w) == {i \in 1..Len(oracle.trades) : oracle.trades[i].ts >= clock - w * MsPerSec}

\* C26: after update_parameters(window_sec=w) with w smaller than the current window,
\* every trade left has a timestamp >= now - w wherever it sits in arrival order, and
\* no trade that new is lost; a call that does not shrink the window leaves the trade
\* list unchanged.
C26_ShrinkEvicts ==
    [][ret'.op = "update_parameters" =>
          IF Shrinks
          THEN /\ \A i \in 1..Len(oracle'.trades) :
                     oracle'.trades[i].ts >= clock - ret'.a.window_sec.v * MsPerSec
               /\ Len(oracle'.trades) = Cardinality(Survivors(ret'.a.window_sec.v))
               /\ oracle'.window = ret'.a.window_sec.v
          ELSE oracle'.trades = oracle.trades]_vars

\* a shrinking call that removed a trade and kept another
C26_Witness ==
    /\ ret.op = "update_parameters" /\ ~ret.raised
    /\ ret.a.window_sec.t = "num" /\ oracle.window = ret.a.window_sec.v
    /\ ret.a.removed_count >= 1
    /\ oracle.trades # <<>>

\* C27: in OkxFeed, once starttime has been set by a subscribe event, a later
\* subscribe event does not reset it.
C27_StartTimeKept ==
    [][okx_feed.starttime > 0 => okx_feed'.starttime = okx_feed.starttime]_vars

\* the steps of a reconnect: the connection ends, the loop sleeps, connects again
ReconnectOps == {"disconnect", "closed", "connect_failed", "connect"}

\* C28: when the websocket connection of okx_ws, gate_ws or kucoin_ws fails and the
\* adapter reconnects, the Oracle's state (trade list, usdt_usd_price, start_time,
\* last_price, window parameters) is the same after the reconnect as before the
\* failure; the subscription confirmed on the new connection keeps the trade list,
\* the rate, start_time and the parameters too.
C28_ReconnectKeepsState ==
    [][/\ ret'.op \in ReconnectOps => oracle' = oracle
       /\ (ret'.op = "subscribed" /\ ~IsNone(oracle.start_time)) =>
             /\ oracle'.trades = oracle.trades
             /\ oracle'.usdt_usd_price = oracle.usdt_usd_price
             /\ oracle'.start_time = oracle.start_time
             /\ oracle'.window = oracle.window
             /\ oracle'.startup_window = oracle.startup_window
             /\ oracle'.min_notional = oracle.min_notional]_vars

\* a reconnect after a transport error, with trades, a rate, a start time and a
\* published price accumulated
C28_Witness ==
    /\ ret.op = "connect"
    /\ backoff >= MinSleepMs
    /\ oracle.trades # <<>>
    /\ IsNum(oracle.usdt_usd_price)
    /\ ~IsNone(oracle.start_time)
    /\ IsNum(oracle.last_price)

\* C29: every connection attempt of the adapter loops after the first is preceded by
\* a sleep of at least 2 seconds, whatever ended the previous connection.
C29_NoBusyLoop ==
    ret.op \in {"connect", "connect_failed"} => (backoff = -1 \/ backoff >= MinSleepMs)

\* C30: usdt_price_fetcher keeps polling until cancelled: every failed fetch
\* (another status than 200, a network error, a timeout, a 200 body without a
\* parsable amount) leaves the task running, having slept the backoff delay it
\* had, so that a later successful fetch can still update the rate.
C30_FailureRetried ==
    [][(ret'.op = "fetch" /\ ret'.a.outcome \in FailedFetches) =>
          /\ fetcher'.alive
          /\ fetcher'.slept = fetcher.delay]_vars

\* C31: the fetcher's retry delay is base_delay at start and after every successful
\* fetch, which is followed by the fixed 15 s sleep; after a failed fetch that the
\* loop retries it is min(max_delay, 1.5 * previous delay + jitter) for a jitter
\* in [0 s, 1 s]; so it is always within [base_delay, max_delay] and never
\* decreases from one failed fetch to the next.
C31_DelayInRange ==
    /\ BaseDelayUs <= fetcher.delay
    /\ fetcher.delay <= MaxDelayUs
    /\ ret.op = "init" => fetcher.delay = BaseDelayUs

C31_Backoff ==
    [][ret'.op = "fetch" =>
          /\ ret'.a.outcome = "ok" =>
                /\ fetcher'.delay = BaseDelayUs
                /\ fetcher'.slept = NormalIntervalUs
          /\ ret'.a.outcome \in FailedFetches =>
                /\ fetcher'.delay >= fetcher.delay
                /\ fetcher'.alive =>
                      \/ /\ fetcher'.delay = MaxDelayUs
                         /\ 3 * fetcher.delay + 2 * JitterMaxUs >= 2 * MaxDelayUs
                      \/ /\ fetcher'.delay < MaxDelayUs
                         /\ 3 * fetcher.delay <= 2 * fetcher'.delay
                         /\ 2 * fetcher'.delay <= 3 * fetcher.delay + 2 * JitterMaxUs]_vars

C31_Delay == [](C31_DelayInRange) /\ C31_Backoff

\* the delay reached the cap by a failed fetch and the task retries from there
C31_Witness ==
    /\ ret.op = "fetch"
    /\ ret.a.outcome \in CaughtFetches
    /\ fetcher.alive
    /\ fetcher.slept > 5 * BaseDelayUs
    /\ fetcher.slept < MaxDelayUs
    /\ fetcher.delay = MaxDelayUs

\* C32: the Oracle's USDT/USD rate is always either unset (NaN) or a positive
\* number: set_usdt_usd_price leaves the rate as it is for None, zero, negative and
\* NaN inputs, and no step returns a rate that was set to unset.
PositiveRate(x) == IsNum(x) /\ x.n > 0

C32_RateUnsetOrPositive ==
    /\ [](IsNaN(oracle.usdt_usd_price) \/ PositiveRate(oracle.usdt_usd_price))
    /\ [][/\ PositiveRate(oracle.usdt_usd_price) => PositiveRate(oracle'.usdt_usd_price)
          /\ (ret'.op = "set_usdt_usd_price" /\ ~PositiveRate(ret'.a.price)) =>
                oracle'.usdt_usd_price = oracle.usdt_usd_price]_vars

\* a rate was set and a later NaN or negative input has just been ignored
C32_Witness ==
    /\ ret.op = "set_usdt_usd_price"
    /\ IsNaN(ret.a.price) \/ (IsNum(ret.a.price) /\ ret.a.price.n < 0)
    /\ PositiveRate(oracle.usdt_usd_price)
    /\ oracle.trades # <<>>

\* C33: each feed's volume_history holds at most volume_history_length entries, the
\* trade counts the feed reported (uncapped) in its most recent cycles with a valid
\* price, oldest dropped first: a cycle appends exactly one entry for a feed that
\* was valid in it, also when the cycle ends in NaN for lack of valid feeds, and
\* leaves the history of a feed that was invalid as it was.
LastEntries(h, n) == SubSeq(h, IF Len(h) > n THEN Len(h) - n + 1 ELSE 1, Len(h))

C33_HistoryBounded ==
    \A i \in 1..Len(volume_history) : Len(volume_history[i]) <= HistoryLength

C33_HistoryStep ==
    [][agg'.called =>
          \A i \in 1..Len(feeds) :
              IF agg'.polls[i].ok
              THEN volume_history'[i] =
                      LastEntries(Append(volume_history[i], agg'.outs[i].meta.trades),
                                  HistoryLength)
              ELSE volume_history'[i] = volume_history[i]]_vars

C33_VolumeHistory == [](C33_HistoryBounded) /\ C33_HistoryStep

\* a cycle that ended in NaN with one valid feed, whose full history lost its
\* oldest entry to the count it reported, a count the caps would have cut
C33_Witness ==
    /\ agg.called
    /\ IsNaN(agg.result)
    /\ \E i \in 1..Len(feeds) :
          /\ agg.polls[i].ok
          /\ Len(agg.before[i]) = HistoryLength
          /\ Head(agg.before[i]) = 0
          /\ agg.before[i][2] = 1
          /\ volume_history[i][1] = 1
          /\ volume_history[i][HistoryLength] = 9
          /\ \A j \in 1..Len(feeds) : j # i => ~agg.polls[j].ok

\* C34: under cooperative scheduling no add_trade, update_parameters or rate update
\* runs while a get_price() call is between its entry and its return, so the price
\* and the trades count that one call returns come from one and the same trade
\* list, the one the Oracle holds when the call returns.
OtherTaskOps == {"add_trade", "update_parameters", "set_usdt_usd_price", "connect",
                 "subscribed"}

C34_SnapshotRead ==
    [][/\ reader.pc # "idle" => ret'.op \notin OtherTaskOps
       /\ (reader.pc # "idle" /\ reader'.pc = "idle") =>
             LET r == compute(oracle, reader'.now, reader.fallback)
             IN  /\ cmp'.price = r.price
                 /\ cmp'.meta.trades = Len(oracle.trades)
                 /\ cmp'.meta.trades = r.meta.trades]_vars

\* a call returned a trade price together with a count of two trades
C34_Witness ==
    /\ ret.op = "get_price"
    /\ reader.pc = "idle"
    /\ cmp.called
    /\ cmp.meta.trades = 2
    /\ IsNum(cmp.price)
    /\ ~cmp.meta.degraded

\* the price the last iteration arrived at before the update decision
Arrived ==
    IF bot.reading.raised \/ IsNaN(bot.reading.price) THEN bot.announcer.price
    ELSE IntOf(RScale(bot.reading.price, PricePrecision))

C36_NoPriceBeforeSubscription ==
    (cmp.called /\ IsNone(oracle.start_time)) => IsNaN(cmp.price)

\* C37: the adjusted TTL buffer that announcer_update_bot holds, after start-up and
\* after every hot reload of RUN_INTERVAL, CONTINUE_DELAY or TTL_BUFFER, is
\* max(TTL_BUFFER, MAX_TX_BLOCK_TIME + max(RUN_INTERVAL, CONTINUE_DELAY)
\*     + 2 * CONTINUE_DELAY + 1) of the parameter values it holds.
C37_ReloadedBufferAsAtStartup ==
    LET larger == IF params.RUN_INTERVAL >= params.CONTINUE_DELAY
                  THEN params.RUN_INTERVAL ELSE params.CONTINUE_DELAY
        margin == MaxTxBlockTime + larger + 2 * params.CONTINUE_DELAY + 1
    IN  params.TTL_BUFFER_ADJ =
            (IF params.TTL_BUFFER >= margin THEN params.TTL_BUFFER ELSE margin)

\* the values of the bills of the last iteration for one statute that are in
\* status IN_IMPLEMENTATION_DELAY or IMPLEMENTABLE
EnactedValues(index) ==
    {configure.bills[i].value : i \in
        {j \in 1..Len(configure.bills) :
            /\ configure.bills[j].statute_index = index
            /\ configure.bills[j].status = "IN_IMPLEMENTATION_DELAY"
               \/ configure.bills[j].status = "IMPLEMENTABLE"}}

\* the iteration read the Statutes and the enacted bills without error
ReadWithoutError == configure.ran /\ configure.req_min_deposit # Unset

\* C38: in every iteration of announcer_configure_bot that read the Statutes and the
\* enacted bills without error, the required MIN_DEPOSIT is the largest of the
\* implemented statute value and the values of the enacted bills for that statute
\* in status IN_IMPLEMENTATION_DELAY or IMPLEMENTABLE, and the required price TTL
\* the smallest of the implemented value and the values of such bills for the TTL
\* statute; bills in any other status change neither.
C38_RequiredValues ==
    ReadWithoutError =>
        LET deposits == {configure.statutes_min_deposit}
                            \cup EnactedValues(StatuteAnnouncerMinimumDeposit)
            ttls == {configure.statutes_price_ttl}
                        \cup EnactedValues(StatuteAnnouncerMaximumValueTtl)
        IN  /\ configure.req_min_deposit \in deposits
            /\ \A v \in deposits : v <= configure.req_min_deposit
            /\ configure.stage = "done" =>
                  /\ configure.req_price_ttl \in ttls
                  /\ \A v \in ttls : configure.req_price_ttl <= v

\* an iteration raised MIN_DEPOSIT to an implementable bill's value and kept the
\* price TTL although a bill with another status asks for a shorter one
C38_Witness ==
    /\ configure.ran
    /\ configure.stage = "done"
    /\ configure.req_min_deposit > configure.statutes_min_deposit
    /\ configure.req_price_ttl = configure.statutes_price_ttl
    /\ \E i \in 1..Len(configure.bills) :
          /\ configure.bills[i].statute_index = StatuteAnnouncerMaximumValueTtl
          /\ configure.bills[i].value < configure.statutes_price_ttl
          /\ configure.bills[i].status = "IMPLEMENTED"
    /\ configure.configured

====
